---- MODULE Spec2Model ----
(***************************************************************************)
(* Model of the observation enrichment and semantic-retrieval pipeline of  *)
(* longterm-memory-macos: the chunker and the embedding pass of            *)
(* scripts/ollama_embeddings.py, the semantic search and the deletion of   *)
(* dashboard/app.py, the classifier and the backfill pass of               *)
(* scripts/backfill_metadata.py, and save_observation, the tag handling    *)
(* and the message loop of the browser extension's native host.            *)
(*                                                                         *)
(* A text is a sequence of one-character strings.  The texts the store and *)
(* the embedding process hold are kept run-length packed (Pack, Unpack).   *)
(***************************************************************************)
EXTENDS Integers, Sequences, FiniteSets, TLC

VARIABLES
    ctext,      \* smart_chunk_text: the text argument
    cmax,       \* smart_chunk_text: the max_size argument
    cchunks,    \* smart_chunk_text: the returned list
    cparts,     \* chunk_long_observation: the chunk_with_part texts it inserts
    cpc,        \* position of the chunker run: "input", "chunked", "persisted"
    store,      \* the committed database: tables observations (obs),
                \* observations_archive (arch) and entities (ent)
    pend,       \* the statements of the embedding connection's open transaction
    next_id,    \* the serial sequence behind observations.id
    clock,      \* the database clock: created_at of the rows a transaction inserts
    pc,         \* position of the embedding process (ollama_embeddings.py embed)
    sel,        \* embed_observations: the fetched list `observations`
    oi,         \* embed_observations: index of the current obs in sel
    embedded_count, \* embed_observations: embedded_count
    chunks,     \* chunk_long_observation: chunks
    max_index,  \* embed_observations: max_index
    new_obs_ids,\* chunk_long_observation: new_obs_ids
    ni,         \* embed_observations: index of new_id in new_ids
    passes,     \* number of embedding passes started
    last_call,  \* history: the last run of the provider chain
    last_search,\* history: the last response of api_semantic_search or of
                \* semantic_search
    chunked_from, \* history: the chunk rows inserted, each with the observation
                \* it was cut from
    rk_active,  \* ranking: the rows of observations that have an embedding,
                \* each with its similarity to the query
    rk_archive, \* ranking: the same for observations_archive
    rk_limit,   \* ranking: the limit argument of the request
    rk_min_similarity, \* ranking: the min_similarity argument of the request
    rk_include_archive, \* ranking: include_archive
    rk_results, \* ranking: results
    rk_pc,      \* position of the request: "request", "fetched", "formatted"
    cl_obs,     \* classifier: the obs row handed to process_observation
    cl_user_entities, \* classifier: LONGTERM_MEMORY_USER_ENTITIES, lowered and split
    cl_results, \* classifier: the results of the runs of process_observation
    cl_capture, \* host: the arguments of its calculate_importance
    cl_importance, \* host: the importance it returned, <<>> before the call
    cl_pc,      \* what is classified: "backfill", "host"
    saver,      \* the native hosts: for each, the position of its
                \* save_observation call, its locals and its open transaction
    next_entity_id, \* the serial sequence behind entities.id
    saves,      \* number of save_observation calls started
    deletes,    \* number of DELETE /api/observation/<id> requests served
    concurrent, \* history: two writers were at work at the same time
    index_log,  \* history: every observation row written, with the entity's
                \* maximum index in the store when it was written
    bf_table,   \* backfill: the rows of the table it is run on, with the
                \* columns of its SELECT
    bf_pend,    \* backfill: the UPDATEs of its connection's open transaction
    bf_updates, \* backfill_observations: updates
    bf_i,       \* backfill_observations: position in updates
    bf_pc,      \* position of the backfill process: "idle", "apply"
    bf_passes,  \* number of backfill passes started
    bf_ended,   \* history: how the last backfill pass ended
    bf_before,  \* history: the ids whose update the pass before committed
    bf_failed,  \* history: the id whose UPDATE raised in the last pass, or 0
    h_stdin,    \* host main: the bytes of stdin not yet read
    h_stdout,   \* host main: the responses sent with send_message
    h_pc,       \* position of the host's main loop: "read", "save", "ended"
    h_reads,    \* number of read_message calls
    h_data,     \* main: message.get('data', {}) of the save being handled
    h_log,      \* history: what each read_message call gave
    h_eof,      \* history: read_message found stdin at its end
    h_offset,   \* history: the number of bytes read from stdin
    h_starts,   \* history: the offsets of stdin at which a message starts
    h_saves_at_call, \* history: saves when the save was dispatched
    h_store_at_call, \* history: the store when the save was dispatched
    tg_category,\* save_observation: metadata_input.get('category', 'auto')
    tg_tags,    \* save_observation: metadata_input.get('tags', [])
    tg_persisted, \* save_observation: the tags it inserts, <<>> before
    tg_pc       \* position of the tag handling: "input", "done"

chunkvars == <<ctext, cmax, cchunks, cparts, cpc>>

pipevars == <<store, pend, next_id, clock, pc, sel, oi, embedded_count, chunks,
              max_index, new_obs_ids, ni, passes, last_call, last_search,
              chunked_from>>

rankvars == <<rk_active, rk_archive, rk_limit, rk_min_similarity,
              rk_include_archive, rk_results, rk_pc>>

classvars == <<cl_obs, cl_user_entities, cl_results, cl_capture,
               cl_importance, cl_pc>>

savevars == <<saver, next_entity_id, saves, deletes, concurrent, index_log>>

bfvars == <<bf_table, bf_pend, bf_updates, bf_i, bf_pc, bf_passes, bf_ended,
            bf_before, bf_failed>>

loopvars == <<h_stdin, h_stdout, h_pc, h_reads, h_data, h_log, h_eof,
              h_offset, h_starts, h_saves_at_call, h_store_at_call>>

tagvars == <<tg_category, tg_tags, tg_persisted, tg_pc>>

vars == <<chunkvars, pipevars, rankvars, classvars, savevars, bfvars,
          loopvars, tagvars>>

\* what the steps of one part of the program leave alone
nonchunkvars == <<pipevars, rankvars, classvars, savevars, bfvars,
                  loopvars, tagvars>>
nonpipevars == <<chunkvars, rankvars, classvars, savevars, bfvars,
                 loopvars, tagvars>>
nonrankvars == <<chunkvars, pipevars, classvars, savevars, bfvars,
                 loopvars, tagvars>>
nonclassvars == <<chunkvars, pipevars, rankvars, savevars, bfvars,
                  loopvars, tagvars>>

----------------------------------------------------------------------------
(* Bounds of the chunker specification *)

\* texts are concatenations of at most MaxTok tokens
MaxTok == 5
\* max_size ranges over MinSize..MaxSize
MinSize == 3
MaxSize == 6

----------------------------------------------------------------------------
(* Character classes of the regular expressions *)

\* [.!?]
Punct == {".", "!", "?"}
\* \s
Space == {" ", "\n", "\t"}
\* \d
Digits == {"0", "1", "2", "3", "4", "5", "6", "7", "8", "9"}

\* str.strip(): the text without its leading and trailing whitespace
strip(s) ==
    IF \A i \in 1..Len(s) : s[i] \in Space THEN <<>>
    ELSE LET first == CHOOSE i \in 1..Len(s) :
                          s[i] \notin Space /\ \A j \in 1..(i-1) : s[j] \in Space
             last  == CHOOSE i \in 1..Len(s) :
                          s[i] \notin Space /\ \A j \in (i+1)..Len(s) : s[j] \in Space
         IN  SubSeq(s, first, last)

\* the elements of a finite set of numbers in increasing order
RECURSIVE SortSet(_)
SortSet(S) ==
    IF S = {} THEN <<>>
    ELSE LET least == CHOOSE x \in S : \A y \in S : x <= y
         IN  <<least>> \o SortSet(S \ {least})

\* \(\d+\) matches at position p of t
IsMarkerAt(t, p) ==
    /\ p + 2 <= Len(t)
    /\ t[p] = "("
    /\ \E q \in (p+2)..Len(t) :
          /\ t[q] = ")"
          /\ \A k \in (p+1)..(q-1) : t[k] \in Digits

\* re.split(r'(?=\(\d+\))', text): cut before every marker; a marker at the very
\* start leaves an empty first piece
re_split_topics(t) ==
    LET c == SortSet({p \in 1..Len(t) : IsMarkerAt(t, p)})
        k == Len(c)
    IN  [j \in 1..(k+1) |->
            SubSeq(t, IF j = 1 THEN 1 ELSE c[j-1],
                      IF j = k + 1 THEN Len(t) ELSE c[j] - 1)]

\* the end of the whitespace run that starts at s
RunEnd(t, s) ==
    CHOOSE e \in s..Len(t) :
        /\ \A k \in s..e : t[k] \in Space
        /\ (e = Len(t) \/ t[e+1] \notin Space)

\* re.split(r'(?<=[.!?])\s+', text): every maximal whitespace run that follows a
\* sentence-ending character is a separator
re_split_sentences(t) ==
    LET st == SortSet({s \in 2..Len(t) : t[s] \in Space /\ t[s-1] \in Punct})
        k  == Len(st)
    IN  [j \in 1..(k+1) |->
            SubSeq(t, IF j = 1 THEN 1 ELSE RunEnd(t, st[j-1]) + 1,
                      IF j = k + 1 THEN Len(t) ELSE st[j] - 1)]

\* text[:n]
Take(t, n) == SubSeq(t, 1, IF n < Len(t) THEN n ELSE Len(t))

\* text[n:]
Drop(t, n) == SubSeq(t, n + 1, Len(t))

----------------------------------------------------------------------------
(* smart_chunk_text *)

\* all(len(t) < max_size for t in topics if t.strip())
TopicsFitInclusive(topics, max_size) ==
    \A i \in 1..Len(topics) :
        strip(topics[i]) # <<>> => Len(topics[i]) <= max_size

TopicsFit(topics, max_size) ==
    \A i \in 1..Len(topics) :
        strip(topics[i]) # <<>> => Len(topics[i]) < max_size

\* [t.strip() for t in topics if t.strip()]
RECURSIVE StripNonBlank(_)
StripNonBlank(ps) ==
    IF ps = <<>> THEN <<>>
    ELSE IF strip(Head(ps)) = <<>> THEN StripNonBlank(Tail(ps))
         ELSE <<strip(Head(ps))>> \o StripNonBlank(Tail(ps))

\* the for loop over the sentences, from sentence k on, with the chunks closed
\* so far and the running current_chunk
RECURSIVE Accumulate(_, _, _, _, _)
Accumulate(sentences, k, closed, current_chunk, max_size) ==
    IF k > Len(sentences) THEN [closed |-> closed, current_chunk |-> current_chunk]
    ELSE IF Len(current_chunk) + Len(sentences[k]) < max_size
         THEN Accumulate(sentences, k + 1, closed,
                         current_chunk \o sentences[k] \o <<" ">>, max_size)
         ELSE Accumulate(sentences, k + 1,
                         IF current_chunk # <<>>
                            THEN Append(closed, strip(current_chunk)) ELSE closed,
                         sentences[k] \o <<" ">>, max_size)

\* the sentence-based chunking: the loop, the flush of the last current_chunk and
\* the final `chunks if chunks else [text[:max_size]]`
SentenceChunksNoFlush(text, max_size) ==
    LET acc    == Accumulate(re_split_sentences(text), 1, <<>>, <<>>, max_size)
        closed == acc.closed
    IN  IF closed # <<>> THEN closed ELSE <<Take(text, max_size)>>

SentenceChunks(text, max_size) ==
    LET acc    == Accumulate(re_split_sentences(text), 1, <<>>, <<>>, max_size)
        closed == IF acc.current_chunk # <<>>
                     THEN Append(acc.closed, strip(acc.current_chunk))
                     ELSE acc.closed
    IN  IF closed # <<>> THEN closed ELSE <<Take(text, max_size)>>

\* whether the final expression of smart_chunk_text takes its else branch
UsesHardFallback(text, max_size) ==
    LET acc == Accumulate(re_split_sentences(text), 1, <<>>, <<>>, max_size)
    IN  acc.closed = <<>> /\ acc.current_chunk = <<>>

smart_chunk_text(text, max_size) ==
    LET topics == re_split_topics(text)
    IN  IF Len(topics) > 1 /\ TopicsFit(topics, max_size)
           THEN StripNonBlank(topics)
           ELSE SentenceChunks(text, max_size)

----------------------------------------------------------------------------
(* chunk_long_observation: the text of the chunk rows *)

\* str(n) for n >= 0
RECURSIVE Dec(_)
Dec(n) ==
    LET d == <<"0", "1", "2", "3", "4", "5", "6", "7", "8", "9">>
    IN  IF n < 10 THEN <<d[n + 1]>> ELSE Dec(n \div 10) \o <<d[(n % 10) + 1]>>

\* re.match(r'^([^:]+:)', obs_text): the text up to its first colon, when
\* at least one character precedes that colon
date_prefix(obs_text) ==
    IF \E c \in 2..Len(obs_text) :
          obs_text[c] = ":" /\ \A j \in 1..(c-1) : obs_text[j] # ":"
       THEN SubSeq(obs_text, 1,
                   CHOOSE c \in 2..Len(obs_text) :
                       obs_text[c] = ":" /\ \A j \in 1..(c-1) : obs_text[j] # ":")
       ELSE <<>>

\* "(Part i/N)"
PartTag(i, n) ==
    <<"(", "P", "a", "r", "t", " ">> \o Dec(i) \o <<"/">> \o Dec(n) \o <<")">>

\* chunk_with_part for chunk i of chunks
chunk_with_part(obs_text, parts, i) ==
    LET prefix == date_prefix(obs_text)
    IN  IF prefix # <<>>
           THEN prefix \o <<" ">> \o PartTag(i, Len(parts)) \o <<" ">>
                       \o strip(Drop(parts[i], Len(prefix)))
           ELSE PartTag(i, Len(parts)) \o <<" ">> \o parts[i]


----------------------------------------------------------------------------
(* The store and the embedding providers *)

\* MAX_CHUNK_SIZE
MAX_CHUNK_SIZE == 800
\* embed_observations(conn, limit, batch_size = 10)
batch_size == 10
\* semantic_search's default limit
search_limit == 10

\* a text as the list of its maximal runs of one character, and back
Pack(t) ==
    LET b == SortSet({i \in 1..Len(t) : i = 1 \/ t[i] # t[i-1]})
    IN  [k \in 1..Len(b) |->
            [c |-> t[b[k]],
             n |-> (IF k = Len(b) THEN Len(t) + 1 ELSE b[k+1]) - b[k]]]

RECURSIVE Unpack(_)
Unpack(p) ==
    IF p = <<>> THEN <<>>
    ELSE [i \in 1..Head(p).n |-> Head(p).c] \o Unpack(Tail(p))

\* len() of a packed text
RECURSIVE PackedLen(_)
PackedLen(p) == IF p = <<>> THEN 0 ELSE Head(p).n + PackedLen(Tail(p))

\* an absent or empty embedding: SQL NULL, Python None and []
NoVec == [space |-> "none"]

\* the vector a provider computes; its space is the provider's model
Vec(provider) == [space |-> provider]

\* what one HTTP call to a provider can give: it raises (connection refused,
\* bad JSON), it times out, it answers an error envelope without a vector, it
\* answers an empty vector, or it answers a vector
Responses(provider) ==
    {[kind |-> "exception", vec |-> NoVec],
     [kind |-> "timeout",   vec |-> NoVec],
     [kind |-> "error",     vec |-> NoVec],
     [kind |-> "empty",     vec |-> NoVec],
     [kind |-> "ok",        vec |-> Vec(provider)]}

\* the call raised inside its try block
Raised(r) == r.kind \in {"exception", "timeout"}

\* get_ollama_embedding: Ollama first, LM Studio when Ollama gave no vector
get_ollama_embedding_no_fallback(r1, r2) ==
    IF Raised(r1) THEN [embedding |-> NoVec, contacted |-> <<"ollama">>]
    ELSE IF r1.kind # "error" /\ r1.vec # NoVec
            THEN [embedding |-> r1.vec, contacted |-> <<"ollama">>]
            ELSE IF ~Raised(r2) /\ r2.vec # NoVec
                    THEN [embedding |-> r2.vec, contacted |-> <<"ollama", "lmstudio">>]
                    ELSE [embedding |-> NoVec, contacted |-> <<"ollama", "lmstudio">>]

get_ollama_embedding(r1, r2) ==
    IF ~Raised(r1) /\ r1.kind # "error" /\ r1.vec # NoVec
       THEN [embedding |-> r1.vec, contacted |-> <<"ollama">>]
       ELSE IF ~Raised(r2) /\ r2.vec # NoVec
               THEN [embedding |-> r2.vec, contacted |-> <<"ollama", "lmstudio">>]
               ELSE [embedding |-> NoVec, contacted |-> <<"ollama", "lmstudio">>]

\* api_semantic_search, lines 529-583: embedding and embedding_source after the
\* Ollama block and the LM Studio block
query_embedding_stale_source(r1, r2) ==
    LET e1 == IF Raised(r1) THEN NoVec ELSE r1.vec
    IN  IF e1 # NoVec
           THEN [embedding |-> e1, embedding_source |-> "ollama",
                 contacted |-> <<"ollama">>]
           ELSE [embedding |-> IF Raised(r2) THEN e1 ELSE r2.vec,
                 embedding_source |-> "ollama",
                 contacted |-> <<"ollama", "lmstudio">>]

query_embedding(r1, r2) ==
    LET e1 == IF Raised(r1) THEN NoVec ELSE r1.vec
        s1 == IF e1 # NoVec THEN "ollama" ELSE "none"
    IN  IF e1 # NoVec
           THEN [embedding |-> e1, embedding_source |-> s1,
                 contacted |-> <<"ollama">>]
           ELSE [embedding |-> IF Raised(r2) THEN e1 ELSE r2.vec,
                 embedding_source |->
                     IF ~Raised(r2) /\ r2.vec # NoVec THEN "lmstudio" ELSE s1,
                 contacted |-> <<"ollama", "lmstudio">>]

\* one SQL statement applied to the tables
ApplyOp(db, op) ==
    CASE op.op = "insert"  -> [db EXCEPT !.obs = @ \cup {op.row}]
      [] op.op = "archive" -> [db EXCEPT !.arch = @ \cup {r \in db.obs : r.id = op.id}]
      [] op.op = "delete"  -> [db EXCEPT !.obs = {r \in @ : r.id # op.id}]
      [] op.op = "embed"   ->
            [db EXCEPT !.obs = {IF r.id = op.id
                                   THEN [r EXCEPT !.embedding = op.vec]
                                   ELSE r : r \in @}]
      [] op.op = "insert_entity" -> [db EXCEPT !.ent = @ \cup {op.row}]
      [] op.op = "count_entity" ->
            [db EXCEPT !.ent = {IF e.id = op.id
                                   THEN [e EXCEPT !.observation_count = @ + 1]
                                   ELSE e : e \in @}]
      [] op.op = "delete_archive" ->
            [db EXCEPT !.arch = {r \in @ : r.id # op.id}]

RECURSIVE ApplyAll(_, _)
ApplyAll(db, ops) ==
    IF ops = <<>> THEN db ELSE ApplyAll(ApplyOp(db, Head(ops)), Tail(ops))

\* what the embedding connection reads: the committed tables and its own
\* uncommitted statements
View == ApplyAll(store, pend)

\* SELECT MAX(observation_index) ... WHERE entity_id = e, and the `else 0`
MaxIndex(db, e) ==
    LET idxs == {r.observation_index : r \in {x \in db.obs : x.entity_id = e}}
    IN  IF idxs = {} THEN 0 ELSE CHOOSE m \in idxs : \A x \in idxs : x <= m

\* the rows of a set in some order that ORDER BY created_at DESC allows
RECURSIVE Orderings(_)
Orderings(rows) ==
    IF rows = {} THEN {<<>>}
    ELSE UNION {{<<r>> \o f : f \in Orderings(rows \ {r})} :
                   r \in {x \in rows :
                             \A y \in rows : x.created_at >= y.created_at}}

----------------------------------------------------------------------------
(* The embedding pass and the semantic search *)

\* observations in the store at the start
MaxObs == 2
\* embedding passes started
MaxPasses == 2
\* the LIMIT argument of a pass: none (0) or 1..MaxLimit
MaxLimit == 1

\* n copies of character c
Rep(c, n) == [i \in 1..n |-> c]

\* a short note, under MAX_CHUNK_SIZE
ShortNote == <<"M", "a", "r", " ", "1", ":", " ">> \o Rep("a", 20) \o <<".">>

\* two sentences behind a date prefix, 910 characters
TwoSentenceNote ==
    <<"M", "a", "r", " ", "1", ":", " ">> \o Rep("a", 500) \o <<".", " ">>
        \o Rep("b", 400) \o <<".">>

\* three numbered topics and no colon, 911 characters
TopicNote ==
    <<"(", "1", ")", " ">> \o Rep("a", 300) \o <<" ", "(", "2", ")", " ">>
        \o Rep("b", 300) \o <<" ", "(", "3", ")", " ">> \o Rep("c", 297)

\* one unbroken sentence of 900 characters
UnbrokenNote == Rep("a", 900)

TextPool == {ShortNote, TwoSentenceNote, TopicNote, UnbrokenNote}

\* observation i was saved for entity 1 (i odd) or entity 2 (i even), with the
\* next observation_index of that entity
InitEntity(i) == IF i % 2 = 1 THEN 1 ELSE 2
InitIdx(i) == Cardinality({j \in 1..i : InitEntity(j) = InitEntity(i)})

\* "example.com"
ExampleDomain == <<"e", "x", "a", "m", "p", "l", "e", ".", "c", "o", "m">>

\* "other.net"
OtherDomain == <<"o", "t", "h", "e", "r", ".", "n", "e", "t">>

\* the names of the entities the first observations were saved for
InitName(e) == IF e = 1 THEN ExampleDomain ELSE OtherDomain

\* no embedding process, no transaction
ProcessIdle ==
    /\ pend = <<>>
    /\ pc = "idle"
    /\ sel = <<>>
    /\ oi = 0
    /\ embedded_count = 0
    /\ chunks = <<>>
    /\ max_index = 0
    /\ new_obs_ids = <<>>
    /\ ni = 0

NoCall == [site |-> "none", primary |-> "not_asked", fallback |-> "not_asked",
           contacted |-> <<>>, embedding |-> NoVec]

NoSearch == [entry |-> "none", status |-> 0, embedding_source |-> "none",
             used |-> NoVec, compared |-> {}, queried |-> FALSE,
             cli_rows |-> {}]

\* the pipeline variables while only the chunker runs
PipeIdle ==
    /\ store = [obs |-> {}, arch |-> {}, ent |-> {}]
    /\ next_id = 1
    /\ clock = 0
    /\ passes = 0
    /\ last_call = NoCall
    /\ last_search = NoSearch
    /\ chunked_from = {}
    /\ ProcessIdle

\* the chunker variables while the pipeline runs
ChunkerOff ==
    /\ ctext = <<>>
    /\ cmax = 0
    /\ cchunks = <<>>
    /\ cparts = <<>>
    /\ cpc = "off"

NoObs == [id |-> 0, observation_text |-> <<>>, entity_name |-> <<>>,
          tags |-> <<>>]

NoCapture == [capture_type |-> "none", has_notes |-> FALSE, tags |-> <<>>]

\* the classifier variables while nothing is classified
ClassifierOff ==
    /\ cl_obs = NoObs
    /\ cl_user_entities = {<<>>}
    /\ cl_results = <<>>
    /\ cl_capture = NoCapture
    /\ cl_importance = <<>>
    /\ cl_pc = "off"

\* the ranking variables while no request is ranked
RankOff ==
    /\ rk_active = {}
    /\ rk_archive = {}
    /\ rk_limit = 0
    /\ rk_min_similarity = 0
    /\ rk_include_archive = FALSE
    /\ rk_results = <<>>
    /\ rk_pc = "off"

\* the backfill variables while no backfill runs
BackfillOff ==
    /\ bf_table = {}
    /\ bf_pend = <<>>
    /\ bf_updates = <<>>
    /\ bf_i = 0
    /\ bf_pc = "off"
    /\ bf_passes = 0
    /\ bf_ended = "none"
    /\ bf_before = {}
    /\ bf_failed = 0

\* the variables of the host's main loop while no host reads stdin
LoopOff ==
    /\ h_stdin = <<>>
    /\ h_stdout = <<>>
    /\ h_pc = "off"
    /\ h_reads = 0
    /\ h_data = <<>>
    /\ h_log = <<>>
    /\ h_eof = FALSE
    /\ h_offset = 0
    /\ h_starts = {}
    /\ h_saves_at_call = 0
    /\ h_store_at_call = <<>>

\* the variables of the tag handling while no tags are handled
TagsOff ==
    /\ tg_category = <<>>
    /\ tg_tags = <<>>
    /\ tg_persisted = <<>>
    /\ tg_pc = "off"

\* no backfill, no main loop, no tag handling
OthersOff == BackfillOff /\ LoopOff /\ TagsOff

\* the native hosts that write to the store
Writers == {"host1", "host2"}

\* data.get(...) of a message without data: the defaults of lines 182-185
NoData == [url |-> <<>>, title |-> <<>>, type |-> "unknown", content |-> <<>>]

\* a host between two messages: no call, no connection
NoSave == [pc |-> "idle", data |-> NoData, entity_id |-> 0,
           observation_index |-> 0, observation_id |-> 0, pend |-> <<>>,
           passes_at_start |-> 0, existed |-> FALSE]

\* what the history holds of a row of observations
Logged(r, m) == [id |-> r.id, entity_id |-> r.entity_id,
                 observation_index |-> r.observation_index, max_before |-> m]

\* no host is saving; the entities, and the observations that save_observation
\* wrote one after the other, are those of the store
HostsIdle ==
    /\ saver = [w \in Writers |-> NoSave]
    /\ next_entity_id = Cardinality(store.ent) + 1
    /\ saves = 0
    /\ deletes = 0
    /\ concurrent = FALSE
    /\ index_log = {Logged(r, r.observation_index - 1) : r \in store.obs}

\* the store holds 1..MaxObs observations that save_observation committed; the
\* newest is any text of the pool and has no embedding yet, the older ones are
\* short notes that an earlier pass embedded with Ollama
InitPipelineOf(pool) ==
    /\ ChunkerOff
    /\ RankOff
    /\ ClassifierOff
    /\ \E n \in 1..MaxObs :
          \E t \in pool :
              /\ store = [obs |-> {[id |-> i, entity_id |-> InitEntity(i),
                                    observation_text |->
                                        Pack(IF i = n THEN t ELSE ShortNote),
                                    observation_index |-> InitIdx(i),
                                    source_type |-> "browser_extension",
                                    embedding |->
                                        IF i = n THEN NoVec ELSE Vec("ollama"),
                                    created_at |-> i] : i \in 1..n},
                          arch |-> {},
                          ent |-> {[id |-> e, name |-> InitName(e),
                                    observation_count |->
                                        Cardinality({i \in 1..n :
                                                       InitEntity(i) = e})] :
                                   e \in {InitEntity(i) : i \in 1..n}}]
              /\ next_id = n + 1
              /\ clock = n
    /\ passes = 0
    /\ last_call = NoCall
    /\ last_search = NoSearch
    /\ chunked_from = {}
    /\ ProcessIdle
    /\ HostsIdle

InitPipeline == InitPipelineOf(TextPool)

\* the same while no backfill and no host loop runs
Init == InitPipeline /\ OthersOff

\* a SELECT without the WHERE clause
Everything(rows) == rows

\* lines 216-217: WHERE embedding IS NULL AND observation_text IS NOT NULL
\* (every text of the store is non-null)
WithoutEmbedding(rows) == {r \in rows : r.embedding = NoVec}

\* the current obs of the loop
Obs == sel[oi]

\* SELECT id, entity_id, observation_text
Fetched(ord) ==
    [i \in 1..Len(ord) |-> [id |-> ord[i].id, entity_id |-> ord[i].entity_id,
                            observation_text |-> ord[i].observation_text]]

\* main 'embed' and embed_observations up to its loop: the SELECT of the rows
\* without an embedding, newest first, with the optional LIMIT
StartPass ==
    /\ pc = "idle"
    /\ passes < MaxPasses
    /\ passes' = passes + 1
    /\ clock' = clock + 1
    /\ \E limit \in 0..MaxLimit :
          \E ord \in Orderings(WithoutEmbedding(store.obs)) :
              sel' = Fetched(IF limit # 0 THEN Take(ord, limit) ELSE ord)
    /\ IF sel' = <<>>
          THEN pc' = "idle" /\ oi' = 0
          ELSE pc' = "loop" /\ oi' = 1
    /\ UNCHANGED <<store, pend, next_id, embedded_count, chunks, max_index,
                   new_obs_ids, ni, last_call, last_search,
                   chunked_from>>
    /\ UNCHANGED nonpipevars

\* lines 243-256 and 131-139: an obs over MAX_CHUNK_SIZE: read the entity's
\* max index and cut the text; with one chunk or none chunk_long_observation
\* returns [] and the obs goes on to the normal embedding
BeginChunk ==
    /\ pc = "loop"
    /\ oi <= Len(sel)
    /\ PackedLen(Obs.observation_text) > MAX_CHUNK_SIZE
    /\ max_index' = MaxIndex(View, Obs.entity_id)
    /\ chunks' = LET cs == smart_chunk_text(Unpack(Obs.observation_text),
                                            MAX_CHUNK_SIZE)
                 IN  [i \in 1..Len(cs) |-> Pack(cs[i])]
    /\ pc' = IF Len(chunks') <= 1 THEN "embed" ELSE "insert"
    /\ new_obs_ids' = <<>>
    /\ UNCHANGED <<store, pend, next_id, clock, sel, oi, embedded_count, ni,
                   passes, last_call, last_search,
                   chunked_from>>
    /\ UNCHANGED nonpipevars

\* the row chunk_long_observation inserts for chunk i
ChunkRow(i) ==
    [id |-> next_id, entity_id |-> Obs.entity_id,
     observation_text |->
         Pack(chunk_with_part(Unpack(Obs.observation_text),
                              [k \in 1..Len(chunks) |-> Unpack(chunks[k])], i)),
     observation_index |-> max_index + i,
     source_type |-> "chunked",
     embedding |-> NoVec,
     created_at |-> clock]

\* lines 146-163: one turn of the loop over the chunks
ChunkInsertCommitting ==
    /\ pc = "insert"
    /\ store' = ApplyAll(store, Append(pend, [op |-> "insert",
                                              row |-> ChunkRow(Len(new_obs_ids) + 1)]))
    /\ pend' = <<>>
    /\ next_id' = next_id + 1
    /\ new_obs_ids' = Append(new_obs_ids, next_id)
    /\ chunked_from' = chunked_from \cup
                           {[chunk |-> next_id, of |-> Obs.id,
                             part |-> Len(new_obs_ids) + 1,
                             total |-> Len(chunks),
                             entity_id |-> Obs.entity_id,
                             observation_index |->
                                 max_index + Len(new_obs_ids) + 1,
                             max_before |-> MaxIndex(store, Obs.entity_id)]}
    /\ pc' = IF Len(new_obs_ids') = Len(chunks) THEN "archive" ELSE "insert"
    /\ UNCHANGED <<clock, sel, oi, embedded_count, chunks, max_index, ni,
                   passes, last_call, last_search>>
    /\ UNCHANGED nonpipevars

ChunkInsert ==
    /\ pc = "insert"
    /\ pend' = Append(pend, [op |-> "insert",
                             row |-> ChunkRow(Len(new_obs_ids) + 1)])
    /\ next_id' = next_id + 1
    /\ new_obs_ids' = Append(new_obs_ids, next_id)
    /\ chunked_from' = chunked_from \cup
                           {[chunk |-> next_id, of |-> Obs.id,
                             part |-> Len(new_obs_ids) + 1,
                             total |-> Len(chunks),
                             entity_id |-> Obs.entity_id,
                             observation_index |->
                                 max_index + Len(new_obs_ids) + 1,
                             max_before |-> MaxIndex(store, Obs.entity_id)]}
    /\ pc' = IF Len(new_obs_ids') = Len(chunks) THEN "archive" ELSE "insert"
    /\ UNCHANGED <<store, clock, sel, oi, embedded_count, chunks, max_index, ni,
                   passes, last_call, last_search>>
    /\ UNCHANGED nonpipevars

\* lines 166-169: INSERT INTO observations_archive SELECT * ... WHERE id = obs_id
ChunkArchive ==
    /\ pc = "archive"
    /\ pend' = Append(pend, [op |-> "archive", id |-> Obs.id])
    /\ pc' = "delete"
    /\ UNCHANGED <<store, next_id, clock, sel, oi, embedded_count, chunks,
                   max_index, new_obs_ids, ni, passes, last_call,
                   last_search, chunked_from>>
    /\ UNCHANGED nonpipevars

\* line 171: DELETE FROM observations WHERE id = obs_id
ChunkDeleteSkipped ==
    /\ pc = "delete"
    /\ pc' = "commit"
    /\ UNCHANGED <<store, pend, next_id, clock, sel, oi, embedded_count, chunks,
                   max_index, new_obs_ids, ni, passes, last_call,
                   last_search, chunked_from>>
    /\ UNCHANGED nonpipevars

ChunkDelete ==
    /\ pc = "delete"
    /\ pend' = Append(pend, [op |-> "delete", id |-> Obs.id])
    /\ pc' = "commit"
    /\ UNCHANGED <<store, next_id, clock, sel, oi, embedded_count, chunks,
                   max_index, new_obs_ids, ni, passes, last_call,
                   last_search, chunked_from>>
    /\ UNCHANGED nonpipevars

\* lines 173-176: conn.commit() and the return of new_obs_ids
ChunkCommit ==
    /\ pc = "commit"
    /\ store' = View
    /\ pend' = <<>>
    /\ pc' = "embed_chunks"
    /\ ni' = 1
    /\ UNCHANGED <<next_id, clock, sel, oi, embedded_count, chunks, max_index,
                   new_obs_ids, passes, last_call, last_search, chunked_from>>
    /\ UNCHANGED nonpipevars

\* the history record of one run of the provider chain: whether the answer of
\* each provider that was contacted carried a vector, the order of the contacts
\* and what the chain returned
Outcome(r) == IF r.kind = "ok" THEN "ok" ELSE "failed"

CallRecord(site, r1, r2, res) ==
    [site |-> site,
     primary |-> Outcome(r1),
     fallback |-> IF Len(res.contacted) > 1 THEN Outcome(r2) ELSE "not_asked",
     contacted |-> res.contacted, embedding |-> res.embedding]

\* lines 261-279: embed the chunk row new_ids[ni]
EmbedChunk ==
    /\ pc = "embed_chunks"
    /\ ni <= Len(new_obs_ids)
    /\ LET new_id == new_obs_ids[ni]
           found  == {r \in View.obs : r.id = new_id}
           empty  == \A r \in found : r.observation_text = <<>>
       IN  IF empty
              THEN UNCHANGED <<pend, embedded_count, last_call>>
              ELSE \E r1 \in Responses("ollama"), r2 \in Responses("lmstudio") :
                      LET res == get_ollama_embedding(r1, r2)
                      IN  /\ last_call' = CallRecord("embed", r1, r2, res)
                          /\ IF res.embedding # NoVec
                                THEN /\ pend' = Append(pend, [op |-> "embed",
                                                   id |-> new_id,
                                                   vec |-> res.embedding])
                                     /\ embedded_count' = embedded_count + 1
                                ELSE UNCHANGED <<pend, embedded_count>>
    /\ ni' = ni + 1
    /\ UNCHANGED <<store, next_id, clock, pc, sel, oi, chunks, max_index,
                   new_obs_ids, passes, last_search,
                   chunked_from>>
    /\ UNCHANGED nonpipevars

\* lines 281-282: conn.commit() and continue
ChunkEmbedCommit ==
    /\ pc = "embed_chunks"
    /\ ni > Len(new_obs_ids)
    /\ store' = View
    /\ pend' = <<>>
    /\ oi' = oi + 1
    /\ pc' = "loop"
    /\ UNCHANGED <<next_id, clock, sel, embedded_count, chunks, max_index,
                   new_obs_ids, ni, passes, last_call, last_search, chunked_from>>
    /\ UNCHANGED nonpipevars

\* lines 284-304: the normal embedding of an obs, with the commit every
\* batch_size embeddings
EmbedOne ==
    /\ \/ pc = "loop" /\ oi <= Len(sel)
                      /\ PackedLen(Obs.observation_text) <= MAX_CHUNK_SIZE
       \/ pc = "embed"
    /\ \E r1 \in Responses("ollama"), r2 \in Responses("lmstudio") :
          LET res == get_ollama_embedding(r1, r2)
              ops == Append(pend, [op |-> "embed", id |-> Obs.id,
                                   vec |-> res.embedding])
          IN  /\ last_call' = CallRecord("embed", r1, r2, res)
              /\ IF res.embedding # NoVec
                    THEN /\ embedded_count' = embedded_count + 1
                         /\ IF embedded_count' % batch_size = 0
                               THEN store' = ApplyAll(store, ops) /\ pend' = <<>>
                               ELSE pend' = ops /\ UNCHANGED store
                    ELSE UNCHANGED <<store, pend, embedded_count>>
    /\ oi' = oi + 1
    /\ pc' = "loop"
    /\ UNCHANGED <<next_id, clock, sel, chunks, max_index, new_obs_ids, ni,
                   passes, last_search, chunked_from>>
    /\ UNCHANGED nonpipevars

\* the locals of a process that has ended
ProcessGone ==
    /\ pc' = "idle"
    /\ sel' = <<>>
    /\ oi' = 0
    /\ embedded_count' = 0
    /\ chunks' = <<>>
    /\ max_index' = 0
    /\ new_obs_ids' = <<>>
    /\ ni' = 0

\* lines 306-310 and main's finally: the final commit, the pass is over
FinalCommit ==
    /\ pc = "loop"
    /\ oi > Len(sel)
    /\ store' = View
    /\ pend' = <<>>
    /\ ProcessGone
    /\ UNCHANGED <<next_id, clock, passes, last_call, last_search, chunked_from>>
    /\ UNCHANGED nonpipevars

\* the process is killed: the server rolls the open transaction back
Crash ==
    /\ pc # "idle"
    /\ pend' = <<>>
    /\ ProcessGone
    /\ UNCHANGED <<store, next_id, clock, passes, last_call, last_search,
                   chunked_from>>
    /\ UNCHANGED nonpipevars

\* main, lines 404-408: a statement raises psycopg2.Error; nothing in
\* embed_observations or chunk_long_observation catches it, main prints it and
\* closes the connection without a commit
StoreError ==
    /\ pc # "idle"
    /\ pend' = <<>>
    /\ ProcessGone
    /\ UNCHANGED <<store, next_id, clock, passes, last_call, last_search,
                   chunked_from>>
    /\ UNCHANGED nonpipevars

\* api_semantic_search: 400 when the query is empty, 503 without an embedding,
\* else the similarity query over the committed rows that have an embedding
Search ==
    /\ \/ /\ last_search' = [NoSearch EXCEPT !.entry = "api", !.status = 400]
          /\ UNCHANGED last_call
       \/ \E include_archive \in BOOLEAN,
             r1 \in Responses("ollama"), r2 \in Responses("lmstudio") :
             LET q     == query_embedding(r1, r2)
                 rows  == {r \in store.obs : r.embedding # NoVec}
                              \cup IF include_archive
                                      THEN {r \in store.arch : r.embedding # NoVec}
                                      ELSE {}
             IN  /\ last_call' = CallRecord("search", r1, r2, q)
                 /\ last_search' =
                       IF q.embedding = NoVec
                          THEN [NoSearch EXCEPT !.entry = "api", !.status = 503]
                          ELSE [entry |-> "api", status |-> 200,
                                embedding_source |-> q.embedding_source,
                                used |-> q.embedding,
                                compared |-> {r.embedding.space : r \in rows},
                                queried |-> TRUE, cli_rows |-> {}]
    /\ UNCHANGED <<store, pend, next_id, clock, pc, sel, oi, embedded_count,
                   chunks, max_index, new_obs_ids, ni, passes, chunked_from>>
    /\ UNCHANGED nonpipevars

\* main 'search' and semantic_search: [] when no provider embedded the query,
\* else the search_limit nearest active rows that have an embedding
semantic_search ==
    /\ \E r1 \in Responses("ollama"), r2 \in Responses("lmstudio") :
          LET query_emb == get_ollama_embedding(r1, r2)
              rows      == {r \in store.obs : r.embedding # NoVec}
              n         == IF Cardinality(rows) < search_limit
                              THEN Cardinality(rows) ELSE search_limit
          IN  /\ last_call' = CallRecord("cli_search", r1, r2, query_emb)
              /\ IF query_emb.embedding = NoVec
                    THEN last_search' = [NoSearch EXCEPT !.entry = "cli"]
                    ELSE \E top \in {S \in SUBSET rows : Cardinality(S) = n} :
                            last_search' =
                                [entry |-> "cli", status |-> 0,
                                 embedding_source |-> "none",
                                 used |-> query_emb.embedding,
                                 compared |-> {r.embedding.space : r \in rows},
                                 queried |-> TRUE,
                                 cli_rows |-> {r.id : r \in top}]
    /\ UNCHANGED <<store, pend, next_id, clock, pc, sel, oi, embedded_count,
                   chunks, max_index, new_obs_ids, ni, passes, chunked_from>>
    /\ UNCHANGED nonpipevars

Next ==
    \/ StartPass
    \/ BeginChunk
    \/ ChunkInsert
    \/ ChunkArchive
    \/ ChunkDelete
    \/ ChunkCommit
    \/ EmbedChunk
    \/ ChunkEmbedCommit
    \/ EmbedOne
    \/ FinalCommit
    \/ Crash
    \/ StoreError

Spec == Init /\ [][Next]_vars

\* three sentences behind a date prefix, 1092 characters: the first two make
\* a chunk of 790 characters
NearLimitNote ==
    <<"M", "a", "r", " ", "1", ":", " ">> \o Rep("a", 390) \o <<".", " ">>
        \o Rep("b", 390) \o <<".", " ">> \o Rep("c", 300) \o <<".">>

\* the embedding passes over a store whose newest observation has a chunk
\* just under MAX_CHUNK_SIZE
InitRechunk == InitPipelineOf({NearLimitNote}) /\ OthersOff

SpecRechunk == InitRechunk /\ [][Next]_vars

\* the embedding passes and the searches of the dashboard
NextRetrieval ==
    \/ StartPass
    \/ BeginChunk
    \/ ChunkInsert
    \/ ChunkArchive
    \/ ChunkDelete
    \/ ChunkCommit
    \/ EmbedChunk
    \/ ChunkEmbedCommit
    \/ EmbedOne
    \/ FinalCommit
    \/ Search

SpecRetrieval == Init /\ [][NextRetrieval]_vars

\* the embedding passes and both entry points of the retrieval: the search
\* of the dashboard and the search of the command line
NextSearch ==
    \/ StartPass
    \/ BeginChunk
    \/ ChunkInsert
    \/ ChunkArchive
    \/ ChunkDelete
    \/ ChunkCommit
    \/ EmbedChunk
    \/ ChunkEmbedCommit
    \/ EmbedOne
    \/ FinalCommit
    \/ Search
    \/ semantic_search

SpecSearch == Init /\ [][NextSearch]_vars

----------------------------------------------------------------------------
(* The chunker specification: smart_chunk_text and the chunk texts of          *)
(* chunk_long_observation applied to every text of at most MaxTok tokens.      *)

Tokens == {<<"a">>, <<"b">>, <<".">>, <<" ">>, <<":">>, <<"(", "1", ")">>}

RECURSIVE Flatten(_)
Flatten(ss) == IF ss = <<>> THEN <<>> ELSE Head(ss) \o Flatten(Tail(ss))

Texts == UNION {{Flatten(f) : f \in [1..n -> Tokens]} : n \in 0..MaxTok}

InitChunk ==
    /\ ctext \in Texts
    /\ cmax \in MinSize..MaxSize
    /\ cchunks = <<>>
    /\ cparts = <<>>
    /\ cpc = "input"
    /\ PipeIdle
    /\ RankOff
    /\ ClassifierOff
    /\ HostsIdle
    /\ OthersOff

\* chunks = smart_chunk_text(obs_text)
SmartChunk ==
    /\ cpc = "input"
    /\ cchunks' = smart_chunk_text(ctext, cmax)
    /\ cpc' = "chunked"
    /\ UNCHANGED <<ctext, cmax, cparts>>
    /\ UNCHANGED nonchunkvars

\* the chunk_with_part of every chunk; with one chunk or none
\* chunk_long_observation returns before it builds any
PersistParts ==
    /\ cpc = "chunked"
    /\ Len(cchunks) > 1
    /\ cparts' = [i \in 1..Len(cchunks) |-> chunk_with_part(ctext, cchunks, i)]
    /\ cpc' = "persisted"
    /\ UNCHANGED <<ctext, cmax, cchunks>>
    /\ UNCHANGED nonchunkvars

NextChunk == SmartChunk \/ PersistParts

SpecChunk == InitChunk /\ [][NextChunk]_vars

----------------------------------------------------------------------------
(* The ranking specification: the SQL and the result formatting of            *)
(* api_semantic_search applied to every pair of small tables.  A similarity   *)
(* is an integer in units of 0.00001; a formatted similarity is <<v>> with v  *)
(* in units of 0.0001, or <<>> for None.                                      *)

\* rows that have an embedding, per table
MaxRows == 2

\* the similarity 1.0
One == 100000

\* 1 - cosine distance of a stored vector to the query vector: opposed,
\* orthogonal, just over one half, identical
SimValues == {0 - 20000, 0, 50004, One}

\* the min_similarity argument: under the range, 0, the default 0.5, over the range
MinArgs == {0 - 10000, 0, 50000, 2 * One}

\* the limit argument: under the range, within it, over the range
LimitArgs == 0..MaxRows \cup {101}

Min2(a, b) == IF a < b THEN a ELSE b
Max2(a, b) == IF a > b THEN a ELSE b

\* line 521: min(100, max(1, int(limit)))
clamp_limit(l) == Min2(100, Max2(1, l))

\* line 522: min(1.0, max(0.0, float(min_similarity)))
clamp_min_similarity(m) == Min2(One, Max2(0, m))

\* the rows of a set in some order that ORDER BY similarity DESC allows
RECURSIVE BySimilarityDesc(_)
BySimilarityDesc(rows) ==
    IF rows = {} THEN {<<>>}
    ELSE UNION {{<<r>> \o f : f \in BySimilarityDesc(rows \ {r})} :
                   r \in {x \in rows :
                             \A y \in rows : x.similarity >= y.similarity}}

\* the CTE `combined` (include_archive) or `ranked`
combined(active, archive, include_archive) ==
    active \cup IF include_archive THEN archive ELSE {}

\* SELECT * FROM combined WHERE similarity >= %s ORDER BY similarity DESC
\* LIMIT %s: the lists cur.fetchall() can return
fetchall_active_first(active, archive, include_archive, min_similarity, lim) ==
    {Take(f \o g, lim) :
        f \in BySimilarityDesc({r \in active : r.similarity >= min_similarity}),
        g \in BySimilarityDesc({r \in combined({}, archive, include_archive) :
                                   r.similarity >= min_similarity})}

fetchall(active, archive, include_archive, min_similarity, lim) ==
    {Take(f, lim) :
        f \in BySimilarityDesc({r \in combined(active, archive, include_archive) :
                                   r.similarity >= min_similarity})}

\* round(x, 4); SimValues holds no value halfway between two results
round4(x) == (x + 5) \div 10

\* lines 641-646 for one result r
format_result(r) ==
    [id |-> r.id, storage |-> r.storage,
     embedding |-> IF r.embedding THEN FALSE ELSE r.embedding,
     similarity |-> IF r.similarity # 0 THEN <<round4(r.similarity)>> ELSE <<>>]

\* the tables hold up to MaxRows rows with an embedding each, numbered within
\* a table by increasing similarity; the request is past the 400 and 503 exits
InitRank ==
    /\ ChunkerOff
    /\ PipeIdle
    /\ ClassifierOff
    /\ \E na, nb \in 0..MaxRows :
          \E sa \in [1..na -> SimValues], sb \in [1..nb -> SimValues] :
              /\ \A i \in 1..(na - 1) : sa[i] <= sa[i+1]
              /\ \A i \in 1..(nb - 1) : sb[i] <= sb[i+1]
              /\ rk_active = {[id |-> i, storage |-> "active",
                               similarity |-> sa[i], embedding |-> TRUE] :
                                  i \in 1..na}
              /\ rk_archive = {[id |-> na + i, storage |-> "archive",
                                similarity |-> sb[i], embedding |-> TRUE] :
                                   i \in 1..nb}
    /\ rk_limit \in LimitArgs
    /\ rk_min_similarity \in MinArgs
    /\ rk_include_archive \in BOOLEAN
    /\ rk_results = <<>>
    /\ rk_pc = "request"
    /\ HostsIdle
    /\ OthersOff

\* lines 521-524 and 599-635: the clamps and the similarity query
RankFetch ==
    /\ rk_pc = "request"
    /\ rk_results' \in fetchall(rk_active, rk_archive, rk_include_archive,
                                clamp_min_similarity(rk_min_similarity),
                                clamp_limit(rk_limit))
    /\ rk_pc' = "fetched"
    /\ UNCHANGED <<rk_active, rk_archive, rk_limit, rk_min_similarity,
                   rk_include_archive>>
    /\ UNCHANGED nonrankvars

\* lines 640-646: the loop that formats the results for JSON
FormatResults ==
    /\ rk_pc = "fetched"
    /\ rk_results' = [i \in 1..Len(rk_results) |-> format_result(rk_results[i])]
    /\ rk_pc' = "formatted"
    /\ UNCHANGED <<rk_active, rk_archive, rk_limit, rk_min_similarity,
                   rk_include_archive>>
    /\ UNCHANGED nonrankvars

NextRank == RankFetch \/ FormatResults

SpecRank == InitRank /\ [][NextRank]_vars

----------------------------------------------------------------------------
(* The classifier of scripts/backfill_metadata.py and the importance of the   *)
(* native host.  A pattern table holds literal alternatives; an importance is *)
(* an integer in units of 0.001, a rounded importance in units of 0.01.       *)

\* str.lower() on the letters the texts use
UpperCase == <<"A", "B", "C", "D", "E", "F", "G", "H", "I", "J", "K", "L", "M",
               "N", "O", "P", "Q", "R", "S", "T", "U", "V", "W", "X", "Y", "Z">>
LowerCase == <<"a", "b", "c", "d", "e", "f", "g", "h", "i", "j", "k", "l", "m",
               "n", "o", "p", "q", "r", "s", "t", "u", "v", "w", "x", "y", "z">>

lower(t) ==
    [i \in 1..Len(t) |->
        IF \E k \in 1..26 : UpperCase[k] = t[i]
           THEN LowerCase[CHOOSE k \in 1..26 : UpperCase[k] = t[i]]
           ELSE t[i]]

\* \w
WordChars == {LowerCase[k] : k \in 1..26} \cup {UpperCase[k] : k \in 1..26}
                 \cup Digits \cup {"_"}

\* TYPE_PATTERNS, in declaration order; a pattern is the list of its
\* alternatives, an alternative a list of characters and of "\\d+" for a run
\* of digits

TYPE_PATTERNS ==
    <<[obs_type |-> "technical_achievement", patterns |->
          <<<<<<"s", "u", "c", "c", "e", "s", "s", "f", "u", "l", "l", "y">>,
              <<"c", "o", "m", "p", "l", "e", "t", "e", "d">>,
              <<"f", "i", "x", "e", "d">>,
              <<"r", "e", "s", "o", "l", "v", "e", "d">>,
              <<"w", "o", "r", "k", "i", "n", "g">>,
              <<"d", "e", "p", "l", "o", "y", "e", "d">>,
              <<"i", "n", "s", "t", "a", "l", "l", "e", "d">>,
              <<"c", "o", "n", "f", "i", "g", "u", "r", "e", "d">>>>,
            <<<<"m", "i", "g", "r", "a", "t", "i", "o", "n", " ", "c", "o", "m", "p", "l", "e", "t", "e">>,
              <<"n", "o", "w", " ", "w", "o", "r", "k", "s">>,
              <<"b", "u", "g", " ", "f", "i", "x", "e", "d">>,
              <<"i", "s", "s", "u", "e", " ", "r", "e", "s", "o", "l", "v", "e", "d">>>>>>],
      [obs_type |-> "milestone", patterns |->
          <<<<<<"m", "i", "l", "e", "s", "t", "o", "n", "e">>,
              <<"l", "a", "u", "n", "c", "h", "e", "d">>,
              <<"r", "e", "l", "e", "a", "s", "e", "d">>,
              <<"s", "h", "i", "p", "p", "e", "d">>,
              <<"v", "\\d+", ".", "\\d+">>,
              <<"v", "e", "r", "s", "i", "o", "n", " ", "\\d+">>>>,
            <<<<"f", "i", "r", "s", "t", " ", "t", "i", "m", "e">>,
              <<"b", "r", "e", "a", "k", "t", "h", "r", "o", "u", "g", "h">>,
              <<"a", "c", "h", "i", "e", "v", "e", "m", "e", "n", "t">>>>>>],
      [obs_type |-> "insight", patterns |->
          <<<<<<"r", "e", "a", "l", "i", "z", "e", "d">>,
              <<"d", "i", "s", "c", "o", "v", "e", "r", "e", "d">>,
              <<"l", "e", "a", "r", "n", "e", "d">>,
              <<"u", "n", "d", "e", "r", "s", "t", "a", "n", "d", "i", "n", "g">>,
              <<"i", "n", "s", "i", "g", "h", "t">>,
              <<"k", "e", "y", " ", "f", "i", "n", "d", "i", "n", "g">>>>,
            <<<<"i", "m", "p", "o", "r", "t", "a", "n", "t", ":">>,
              <<"n", "o", "t", "e", ":">>,
              <<"r", "e", "m", "e", "m", "b", "e", "r", ":">>>>>>],
      [obs_type |-> "project_update", patterns |->
          <<<<<<"p", "r", "o", "g", "r", "e", "s", "s">>,
              <<"u", "p", "d", "a", "t", "e">>,
              <<"s", "t", "a", "t", "u", "s">>,
              <<"w", "o", "r", "k", "i", "n", "g", " ", "o", "n">>,
              <<"b", "u", "i", "l", "d", "i", "n", "g">>,
              <<"d", "e", "v", "e", "l", "o", "p", "i", "n", "g">>>>,
            <<<<"a", "d", "d", "e", "d">>,
              <<"c", "r", "e", "a", "t", "e", "d">>,
              <<"i", "m", "p", "l", "e", "m", "e", "n", "t", "e", "d">>,
              <<"i", "n", "t", "e", "g", "r", "a", "t", "e", "d">>>>>>],
      [obs_type |-> "research", patterns |->
          <<<<<<"r", "e", "s", "e", "a", "r", "c", "h">>,
              <<"i", "n", "v", "e", "s", "t", "i", "g", "a", "t", "i", "n", "g">>,
              <<"e", "x", "p", "l", "o", "r", "i", "n", "g">>,
              <<"a", "n", "a", "l", "y", "z", "i", "n", "g">>,
              <<"s", "t", "u", "d", "y", "i", "n", "g">>>>,
            <<<<"p", "a", "p", "e", "r">>,
              <<"a", "r", "t", "i", "c", "l", "e">>,
              <<"d", "o", "c", "u", "m", "e", "n", "t", "a", "t", "i", "o", "n">>,
              <<"s", "p", "e", "c">>>>>>],
      [obs_type |-> "decision", patterns |->
          <<<<<<"d", "e", "c", "i", "d", "e", "d">>,
              <<"d", "e", "c", "i", "s", "i", "o", "n">>,
              <<"c", "h", "o", "s", "e">>,
              <<"s", "e", "l", "e", "c", "t", "e", "d">>,
              <<"g", "o", "i", "n", "g", " ", "w", "i", "t", "h">>,
              <<"w", "i", "l", "l", " ", "u", "s", "e">>>>,
            <<<<"s", "t", "r", "a", "t", "e", "g", "y">>,
              <<"a", "p", "p", "r", "o", "a", "c", "h">>,
              <<"p", "l", "a", "n">>>>>>],
      [obs_type |-> "problem", patterns |->
          <<<<<<"i", "s", "s", "u", "e">>,
              <<"p", "r", "o", "b", "l", "e", "m">>,
              <<"e", "r", "r", "o", "r">>, <<"b", "u", "g">>,
              <<"f", "a", "i", "l", "e", "d">>,
              <<"b", "r", "o", "k", "e", "n">>,
              <<"n", "o", "t", " ", "w", "o", "r", "k", "i", "n", "g">>>>,
            <<<<"t", "r", "o", "u", "b", "l", "e">>,
              <<"s", "t", "u", "c", "k">>,
              <<"b", "l", "o", "c", "k", "e", "r">>>>>>],
      [obs_type |-> "reference", patterns |->
          <<<<<<"r", "e", "f", "e", "r", "e", "n", "c", "e">>,
              <<"d", "o", "c", "u", "m", "e", "n", "t", "a", "t", "i", "o", "n">>,
              <<"g", "u", "i", "d", "e">>,
              <<"t", "u", "t", "o", "r", "i", "a", "l">>,
              <<"h", "o", "w", " ", "t", "o">>>>,
            <<<<"u", "r", "l", ":">>, <<"l", "i", "n", "k", ":">>,
              <<"s", "e", "e", ":">>, <<"d", "o", "c", "s", ":">>>>>>]>>

\* TAG_PATTERNS, in declaration order; every pattern is \b(...)\b and is given
\* by the words it matches

TAG_PATTERNS ==
    <<[tag |-> "python", words |->
          {<<"p", "y", "t", "h", "o", "n">>}],
      [tag |-> "javascript", words |->
          {<<"j", "a", "v", "a", "s", "c", "r", "i", "p", "t">>,
           <<"j", "s">>, <<"n", "o", "d", "e", ".", "j", "s">>,
           <<"n", "o", "d", "e", "j", "s">>,
           <<"t", "y", "p", "e", "s", "c", "r", "i", "p", "t">>,
           <<"t", "s">>}],
      [tag |-> "postgresql", words |->
          {<<"p", "o", "s", "t", "g", "r", "e", "s">>,
           <<"p", "o", "s", "t", "g", "r", "e", "s", "q", "l">>,
           <<"p", "s", "q", "l">>, <<"p", "g", "_">>}],
      [tag |-> "docker", words |->
          {<<"d", "o", "c", "k", "e", "r">>}],
      [tag |-> "git", words |->
          {<<"g", "i", "t", "h", "u", "b">>,
           <<"g", "i", "t", "l", "a", "b">>, <<"g", "i", "t">>}],
      [tag |-> "mcp", words |->
          {<<"m", "c", "p">>}],
      [tag |-> "blockchain", words |->
          {<<"b", "l", "o", "c", "k", "c", "h", "a", "i", "n">>,
           <<"w", "e", "b", "3">>, <<"c", "r", "y", "p", "t", "o">>,
           <<"e", "t", "h", "e", "r", "e", "u", "m">>,
           <<"b", "i", "t", "c", "o", "i", "n">>,
           <<"s", "o", "l", "a", "n", "a">>}],
      [tag |-> "ai", words |->
          {<<"a", "i">>, <<"l", "l", "m">>, <<"g", "p", "t">>,
           <<"c", "l", "a", "u", "d", "e">>,
           <<"a", "n", "t", "h", "r", "o", "p", "i", "c">>,
           <<"o", "p", "e", "n", "a", "i">>,
           <<"e", "m", "b", "e", "d", "d", "i", "n", "g">>,
           <<"v", "e", "c", "t", "o", "r">>}],
      [tag |-> "react", words |->
          {<<"r", "e", "a", "c", "t">>}],
      [tag |-> "flask", words |->
          {<<"f", "l", "a", "s", "k">>}],
      [tag |-> "vue", words |->
          {<<"v", "u", "e">>}],
      [tag |-> "api", words |->
          {<<"a", "p", "i">>}],
      [tag |-> "database", words |->
          {<<"d", "a", "t", "a", "b", "a", "s", "e">>, <<"d", "b">>,
           <<"s", "q", "l">>}],
      [tag |-> "testing", words |->
          {<<"t", "e", "s", "t">>, <<"t", "e", "s", "t", "i", "n", "g">>,
           <<"u", "n", "i", "t", "t", "e", "s", "t">>,
           <<"p", "y", "t", "e", "s", "t">>}],
      [tag |-> "deployment", words |->
          {<<"d", "e", "p", "l", "o", "y">>,
           <<"d", "e", "p", "l", "o", "y", "m", "e", "n", "t">>,
           <<"p", "r", "o", "d", "u", "c", "t", "i", "o", "n">>,
           <<"s", "t", "a", "g", "i", "n", "g">>}],
      [tag |-> "configuration", words |->
          {<<"c", "o", "n", "f", "i", "g">>,
           <<"c", "o", "n", "f", "i", "g", "u", "r", "a", "t", "i", "o", "n">>,
           <<"s", "e", "t", "u", "p">>,
           <<"s", "e", "t", "t", "i", "n", "g", "s">>}],
      [tag |-> "security", words |->
          {<<"s", "e", "c", "u", "r", "i", "t", "y">>,
           <<"a", "u", "t", "h">>,
           <<"a", "u", "t", "h", "e", "n", "t", "i", "c", "a", "t", "i", "o", "n">>,
           <<"o", "a", "u", "t", "h">>, <<"j", "w", "t">>}],
      [tag |-> "performance", words |->
          {<<"p", "e", "r", "f", "o", "r", "m", "a", "n", "c", "e">>,
           <<"o", "p", "t", "i", "m", "i", "z", "a", "t", "i", "o", "n">>,
           <<"s", "p", "e", "e", "d">>,
           <<"l", "a", "t", "e", "n", "c", "y">>}],
      [tag |-> "ccxt", words |->
          {<<"c", "c", "x", "t">>}],
      [tag |-> "wallet", words |->
          {<<"w", "a", "l", "l", "e", "t">>}],
      [tag |-> "voice", words |->
          {<<"v", "o", "i", "c", "e">>, <<"s", "p", "e", "e", "c", "h">>,
           <<"a", "u", "d", "i", "o">>,
           <<"p", "i", "p", "e", "c", "a", "t">>}],
      [tag |-> "memory", words |->
          {<<"m", "e", "m", "o", "r", "y">>,
           <<"s", "e", "m", "a", "n", "t", "i", "c">>,
           <<"e", "m", "b", "e", "d", "d", "i", "n", "g">>,
           <<"l", "o", "n", "g", "t", "e", "r", "m">>}],
      [tag |-> "multi-agent", words |->
          {<<"m", "u", "l", "t", "i", "-", "a", "g", "e", "n", "t">>,
           <<"m", "u", "l", "t", "i", "a", "g", "e", "n", "t">>,
           <<"a", "g", "e", "n", "t">>, <<"t", "m", "u", "x">>}]>>

HIGH_IMPORTANCE_SIGNALS ==
    <<<<<<"i", "m", "p", "o", "r", "t", "a", "n", "t">>,
        <<"c", "r", "i", "t", "i", "c", "a", "l">>,
        <<"c", "r", "u", "c", "i", "a", "l">>,
        <<"e", "s", "s", "e", "n", "t", "i", "a", "l">>, <<"k", "e", "y">>,
        <<"m", "a", "j", "o", "r">>>>,
      <<<<"b", "r", "e", "a", "k", "t", "h", "r", "o", "u", "g", "h">>,
        <<"m", "i", "l", "e", "s", "t", "o", "n", "e">>,
        <<"a", "c", "h", "i", "e", "v", "e", "m", "e", "n", "t">>,
        <<"s", "u", "c", "c", "e", "s", "s">>>>,
      <<<<"p", "r", "o", "d", "u", "c", "t", "i", "o", "n">>,
        <<"d", "e", "p", "l", "o", "y", "e", "d">>,
        <<"r", "e", "l", "e", "a", "s", "e", "d">>,
        <<"s", "h", "i", "p", "p", "e", "d">>>>,
      <<<<"d", "e", "c", "i", "s", "i", "o", "n">>,
        <<"s", "t", "r", "a", "t", "e", "g", "y">>,
        <<"a", "r", "c", "h", "i", "t", "e", "c", "t", "u", "r", "e">>>>>>

MEDIUM_IMPORTANCE_SIGNALS ==
    <<<<<<"c", "o", "m", "p", "l", "e", "t", "e", "d">>,
        <<"f", "i", "n", "i", "s", "h", "e", "d">>, <<"d", "o", "n", "e">>,
        <<"w", "o", "r", "k", "i", "n", "g">>>>,
      <<<<"f", "i", "x", "e", "d">>,
        <<"r", "e", "s", "o", "l", "v", "e", "d">>,
        <<"s", "o", "l", "v", "e", "d">>>>,
      <<<<"l", "e", "a", "r", "n", "e", "d">>,
        <<"d", "i", "s", "c", "o", "v", "e", "r", "e", "d">>,
        <<"r", "e", "a", "l", "i", "z", "e", "d">>>>>>

LOW_IMPORTANCE_SIGNALS ==
    <<<<<<"t", "e", "s", "t", "i", "n", "g">>,
        <<"t", "r", "y", "i", "n", "g">>,
        <<"e", "x", "p", "e", "r", "i", "m", "e", "n", "t", "i", "n", "g">>>>,
      <<<<"m", "i", "n", "o", "r">>, <<"s", "m", "a", "l", "l">>,
        <<"q", "u", "i", "c", "k">>>>,
      <<<<"d", "e", "b", "u", "g">>,
        <<"t", "r", "o", "u", "b", "l", "e", "s", "h", "o", "o", "t">>>>>>

\* the end of the run of digits that starts at p
DigitRunEnd(t, p) ==
    IF \E q \in p..Len(t) : t[q] \notin Digits
       THEN (CHOOSE q \in p..Len(t) :
                t[q] \notin Digits /\ \A j \in p..(q-1) : t[j] \in Digits) - 1
       ELSE Len(t)

\* the position after the match of the atoms k.. of one alternative at
\* position p of t, 0 when they do not match there
RECURSIVE MatchEnd(_, _, _, _)
MatchEnd(alt, k, t, p) ==
    IF k > Len(alt) THEN p
    ELSE IF p > Len(t) THEN 0
    ELSE IF alt[k] = "\\d+"
            THEN IF t[p] \in Digits
                    THEN MatchEnd(alt, k + 1, t, DigitRunEnd(t, p) + 1)
                    ELSE 0
            ELSE IF t[p] = alt[k] THEN MatchEnd(alt, k + 1, t, p + 1) ELSE 0

\* the position after the match of a pattern at p: the first alternative, in
\* the order written, that matches there; 0 when none does
PatternEnd(pattern, t, p) ==
    LET hits == {a \in 1..Len(pattern) : MatchEnd(pattern[a], 1, t, p) # 0}
    IN  IF hits = {} THEN 0
        ELSE MatchEnd(pattern[CHOOSE a \in hits : \A b \in hits : a <= b], 1, t, p)

\* len(re.findall(pattern, t)): the matches are taken left to right and do not
\* overlap
RECURSIVE CountFrom(_, _, _, _)
CountFrom(pattern, t, starts, p) ==
    LET rest == {q \in starts : q >= p}
    IN  IF rest = {} THEN 0
        ELSE LET q == CHOOSE x \in rest : \A y \in rest : x <= y
             IN  1 + CountFrom(pattern, t, starts, PatternEnd(pattern, t, q))

\* the first characters a match of the pattern can start with
FirstChars(pattern) == {pattern[a][1] : a \in 1..Len(pattern)}

findall_count(pattern, t) ==
    LET first == FirstChars(pattern)
    IN  CountFrom(pattern, t,
                  {p \in 1..Len(t) :
                      t[p] \in first /\ PatternEnd(pattern, t, p) # 0}, 1)

\* re.search(pattern, t) for a pattern without \b
re_search(pattern, t) ==
    LET first == FirstChars(pattern)
    IN  \E p \in 1..Len(t) : t[p] \in first /\ PatternEnd(pattern, t, p) # 0

\* \b between t[p-1] and t[p]
WordBoundary(t, p) ==
    (p > 1 /\ t[p-1] \in WordChars) # (p <= Len(t) /\ t[p] \in WordChars)

\* re.search(r'\b(words)\b', t)
re_search_words(words, t) ==
    LET first == {w[1] : w \in words}
    IN  \E p \in 1..Len(t) :
            /\ t[p] \in first
            /\ WordBoundary(t, p)
            /\ \E w \in words :
                  MatchEnd(w, 1, t, p) # 0 /\ WordBoundary(t, p + Len(w))

\* lines 126-133: score of one type
type_score(entry, text_lower) ==
    LET RECURSIVE Sum(_)
        Sum(k) == IF k = 0 THEN 0
                  ELSE Sum(k - 1) + findall_count(entry.patterns[k], text_lower)
    IN  Sum(Len(entry.patterns))

\* max(scores, key=scores.get) over the items from k on: the first key with
\* the largest score; best is the key kept so far
RECURSIVE max_by_score_last(_, _, _)
max_by_score_last(scores, k, best) ==
    IF k > Len(scores) THEN best.obs_type
    ELSE max_by_score_last(scores, k + 1,
             IF scores[k].score >= best.score THEN scores[k] ELSE best)

RECURSIVE max_by_score(_, _, _)
max_by_score(scores, k, best) ==
    IF k > Len(scores) THEN best.obs_type
    ELSE max_by_score(scores, k + 1,
             IF scores[k].score > best.score THEN scores[k] ELSE best)

\* infer_observation_type
infer_observation_type(text) ==
    LET text_lower == lower(text)
        all    == [k \in 1..Len(TYPE_PATTERNS) |->
                      [obs_type |-> TYPE_PATTERNS[k].obs_type,
                       score |-> type_score(TYPE_PATTERNS[k], text_lower)]]
        scores == SelectSeq(all, LAMBDA e : e.score > 0)
    IN  IF scores # <<>> THEN max_by_score(scores, 2, scores[1]) ELSE "note"

\* the loop of extract_tags over the table from k on
RECURSIVE matching_tags(_, _, _)
matching_tags(text_lower, k, tags) ==
    IF k > Len(TAG_PATTERNS) THEN tags
    ELSE matching_tags(text_lower, k + 1,
             IF re_search_words(TAG_PATTERNS[k].words, text_lower)
                THEN Append(tags, TAG_PATTERNS[k].tag) ELSE tags)

\* extract_tags
extract_tags_last10(text) ==
    LET tags == matching_tags(lower(text), 1, <<>>)
    IN  Drop(tags, IF Len(tags) > 10 THEN Len(tags) - 10 ELSE 0)

extract_tags(text) == Take(matching_tags(lower(text), 1, <<>>), 10)

\* how many patterns of a signal list are found in the text
signals_found(signals, text_lower) ==
    Cardinality({k \in 1..Len(signals) : re_search(signals[k], text_lower)})

\* calculate_importance of backfill_metadata.py up to the clamp
importance_score(text, entity_name, user_entities) ==
    LET text_lower == lower(text)
    IN  500 + 150 * signals_found(HIGH_IMPORTANCE_SIGNALS, text_lower)
            + 80 * signals_found(MEDIUM_IMPORTANCE_SIGNALS, text_lower)
            - 50 * signals_found(LOW_IMPORTANCE_SIGNALS, text_lower)
            + (IF Len(text) > 500 THEN 100
               ELSE IF Len(text) > 200 THEN 50 ELSE 0)
            + (IF entity_name # <<>> /\ lower(entity_name) \in user_entities
                  THEN 100 ELSE 0)

calculate_importance_unclamped(text, entity_name, user_entities) ==
    importance_score(text, entity_name, user_entities)

calculate_importance(text, entity_name, user_entities) ==
    Max2(100, Min2(1000, importance_score(text, entity_name, user_entities)))

\* round(importance, 2)
round2(x) == (x + 5) \div 10

\* calculate_importance of the native host
host_calculate_importance(capture_type, has_notes, tags) ==
    Max2(0, Min2(1000,
        500 + (IF has_notes THEN 200 ELSE 0)
            + (IF Len(tags) > 0 THEN 100 ELSE 0)
            - (IF capture_type = "page" THEN 100 ELSE 0)))

\* process_observation: None (<<>>) for an observation that has tags
process_observation_counting(obs, user_entities) ==
    IF Len(obs.tags) > 0 THEN <<>>
    ELSE <<[id |-> obs.id,
            observation_type |-> infer_observation_type(obs.observation_text),
            tags |-> extract_tags(obs.observation_text),
            importance |->
                round2(calculate_importance(obs.observation_text,
                                            obs.entity_name, user_entities))
                    + Len(cl_results)]>>

process_observation(obs, user_entities) ==
    IF Len(obs.tags) > 0 THEN <<>>
    ELSE <<[id |-> obs.id,
            observation_type |-> infer_observation_type(obs.observation_text),
            tags |-> extract_tags(obs.observation_text),
            importance |->
                round2(calculate_importance(obs.observation_text,
                                            obs.entity_name, user_entities))]>>

----------------------------------------------------------------------------
(* The classifier specification: process_observation applied to every text   *)
(* of at most MaxPhrases phrases, and the host's calculate_importance        *)
(* applied to every capture.                                                 *)

\* phrases of a text
MaxPhrases == 2

\* "Successfully fixed"
FixedPhrase ==
    <<"S", "u", "c", "c", "e", "s", "s", "f", "u", "l", "l", "y", " ", "f",
      "i", "x", "e", "d">>

\* "the deployment issue"
IssuePhrase ==
    <<"t", "h", "e", " ", "d", "e", "p", "l", "o", "y", "m", "e", "n", "t",
      " ", "i", "s", "s", "u", "e">>

\* "documentation"
DocPhrase ==
    <<"d", "o", "c", "u", "m", "e", "n", "t", "a", "t", "i", "o", "n">>

\* every high, medium and low importance signal at once
\* "key milestone shipped v1.2, a strategy; done, fixed, learned; minor debug testing"
SignalsPhrase ==
    <<"k", "e", "y", " ", "m", "i", "l", "e", "s", "t", "o", "n", "e", " ",
      "s", "h", "i", "p", "p", "e", "d", " ", "v", "1", ".", "2", ",", " ",
      "a", " ", "s", "t", "r", "a", "t", "e", "g", "y", ";", " ", "d", "o",
      "n", "e", ",", " ", "f", "i", "x", "e", "d", ",", " ", "l", "e", "a",
      "r", "n", "e", "d", ";", " ", "m", "i", "n", "o", "r", " ", "d", "e",
      "b", "u", "g", " ", "t", "e", "s", "t", "i", "n", "g">>

\* "python docker git mcp react flask"
StackPhrase ==
    <<"p", "y", "t", "h", "o", "n", " ", "d", "o", "c", "k", "e", "r", " ",
      "g", "i", "t", " ", "m", "c", "p", " ", "r", "e", "a", "c", "t", " ",
      "f", "l", "a", "s", "k">>

\* "vue api db ccxt wallet"
MorePhrase ==
    <<"v", "u", "e", " ", "a", "p", "i", " ", "d", "b", " ", "c", "c", "x",
      "t", " ", "w", "a", "l", "l", "e", "t">>

\* "minor debug testing"
LowPhrase ==
    <<"m", "i", "n", "o", "r", " ", "d", "e", "b", "u", "g", " ", "t", "e",
      "s", "t", "i", "n", "g">>

\* a padding over the first length threshold of calculate_importance; two
\* of them are over the second
Pad == Rep("z", 251)

Phrases ==
    {FixedPhrase, IssuePhrase, DocPhrase, SignalsPhrase,
     StackPhrase, MorePhrase, LowPhrase, Pad}

\* the phrases of ps joined by single spaces
RECURSIVE JoinPhrases(_)
JoinPhrases(ps) ==
    IF ps = <<>> THEN <<>>
    ELSE IF Len(ps) = 1 THEN Head(ps)
         ELSE Head(ps) \o <<" ">> \o JoinPhrases(Tail(ps))

ClassifierTexts ==
    UNION {{JoinPhrases(f) : f \in [1..n -> Phrases]} : n \in 0..MaxPhrases}

\* the owning entity's name with LONGTERM_MEMORY_USER_ENTITIES: no entity and
\* the variable unset, the user's own entity, somebody else's
Owners ==
    {[entity_name |-> <<>>, user_entities |-> {<<>>}],
     [entity_name |-> <<"M", "e">>, user_entities |-> {<<"m", "e">>}],
     [entity_name |-> <<"B", "o", "b">>, user_entities |-> {<<"m", "e">>}]}

\* either a fetched observation waits for process_observation, or a capture
\* waits for the host's calculate_importance
InitClassify ==
    /\ ChunkerOff
    /\ PipeIdle
    /\ RankOff
    /\ cl_results = <<>>
    /\ cl_importance = <<>>
    /\ \/ /\ cl_pc = "backfill"
          /\ \E t \in ClassifierTexts, o \in Owners,
                tg \in {<<>>, <<"legacy">>} :
                /\ cl_obs = [id |-> 1, observation_text |-> t,
                             entity_name |-> o.entity_name, tags |-> tg]
                /\ cl_user_entities = o.user_entities
          /\ cl_capture = NoCapture
       \/ /\ cl_pc = "host"
          /\ cl_obs = NoObs
          /\ cl_user_entities = {<<>>}
          /\ \E ct \in {"note", "selection", "page", "unknown"},
                hn \in BOOLEAN, tg \in {<<>>, <<"browser">>} :
                cl_capture = [capture_type |-> ct, has_notes |-> hn,
                              tags |-> tg]
    /\ HostsIdle
    /\ OthersOff

\* backfill_observations, line 237: result = process_observation(obs, dry_run);
\* the observation is processed once and then once again
ProcessObservation ==
    /\ cl_pc = "backfill"
    /\ Len(cl_results) < 2
    /\ cl_results' = Append(cl_results,
                            process_observation(cl_obs, cl_user_entities))
    /\ UNCHANGED <<cl_obs, cl_user_entities, cl_capture, cl_importance, cl_pc>>
    /\ UNCHANGED nonclassvars

\* save_observation, line 241: importance = calculate_importance(...)
HostImportance ==
    /\ cl_pc = "host"
    /\ cl_importance = <<>>
    /\ cl_importance' = <<host_calculate_importance(cl_capture.capture_type,
                                                    cl_capture.has_notes,
                                                    cl_capture.tags)>>
    /\ UNCHANGED <<cl_obs, cl_user_entities, cl_results, cl_capture, cl_pc>>
    /\ UNCHANGED nonclassvars

NextClassify == ProcessObservation \/ HostImportance

SpecClassify == InitClassify /\ [][NextClassify]_vars

----------------------------------------------------------------------------
(* The ingestion specification: save_observation of the native hosts, the     *)
(* embedding passes and DELETE /api/observation/<id> of the dashboard, each   *)
(* on a connection of its own.  A connection reads the committed tables and   *)
(* its own uncommitted statements (PostgreSQL's READ COMMITTED); an UPDATE or *)
(* DELETE of a row waits for the transaction that holds the row.              *)

\* save_observation calls started
MaxSaves == 2
\* DELETE requests served
MaxDeletes == 1

\* the position of the first character of t that is in S, Len(t) + 1 if none
FirstIndex(t, S) ==
    IF \A i \in 1..Len(t) : t[i] \notin S THEN Len(t) + 1
    ELSE CHOOSE i \in 1..Len(t) : t[i] \in S /\ \A j \in 1..(i-1) : t[j] \notin S

Letters == {UpperCase[i] : i \in 1..Len(UpperCase)}
               \cup {LowerCase[i] : i \in 1..Len(LowerCase)}

\* urllib.parse: the length of "scheme:" at the start of url, 0 without a scheme
SchemeLen(url) ==
    LET i == FirstIndex(url, {":"})
    IN  IF /\ i <= Len(url)
           /\ i > 1
           /\ url[1] \in Letters
           /\ \A k \in 1..(i-1) : url[k] \in Letters \cup Digits \cup {"+", "-", "."}
           THEN i ELSE 0

\* urlparse(url): the netloc behind "//" and the path up to "?" or "#"
urlparse(url) ==
    LET rest   == Drop(url, SchemeLen(url))
        hasnet == Len(rest) >= 2 /\ rest[1] = "/" /\ rest[2] = "/"
        after  == IF hasnet THEN Drop(rest, 2) ELSE rest
        nend   == IF hasnet THEN FirstIndex(after, {"/", "?", "#"}) - 1 ELSE 0
        tail   == Drop(after, nend)
    IN  [netloc |-> Take(after, nend),
         path   |-> Take(tail, FirstIndex(tail, {"?", "#"}) - 1)]

\* get_or_create_entity, lines 130-134: the entity name of a URL
entity_domain(url) ==
    LET parsed == urlparse(url)
        domain == IF parsed.netloc # <<>> THEN parsed.netloc
                  ELSE Take(parsed.path, FirstIndex(parsed.path, {"/"}) - 1)
    IN  IF domain = <<>> THEN <<"u", "n", "k", "n", "o", "w", "n">> ELSE domain

\* datetime.now().strftime('%B %d, %Y') on the day of the captures
date_str ==
    <<"N", "o", "v", "e", "m", "b", "e", "r", " ", "0", "5", ",", " ",
      "2", "0", "2", "6">>

\* save_observation, lines 221-228: the first line of the text
header(capture_type, title) ==
    date_str \o <<":", " ">> \o
        (CASE capture_type = "note" ->
                  <<"N", "O", "T", "E", " ", "f", "r", "o", "m", " ">>
           [] capture_type = "selection" ->
                  <<"E", "X", "C", "E", "R", "P", "T", " ", "f", "r", "o", "m", " ">>
           [] capture_type = "page" ->
                  <<"P", "A", "G", "E", " ", "C", "A", "P", "T", "U", "R", "E",
                    " ", "-", " ">>
           [] OTHER -> <<>>) \o title

\* save_observation, lines 216-234: '\n'.join(observation_parts)
observation_text(data) ==
    header(data.type, data.title) \o <<"\n">>
        \o <<"U", "R", "L", ":", " ">> \o data.url \o <<"\n">>
        \o <<"\n">> \o data.content

\* "https://example.com/a"
PageUrl ==
    <<"h", "t", "t", "p", "s", ":", "/", "/">> \o ExampleDomain \o <<"/", "a">>

\* "new.org/x": a URL without a scheme
BareUrl == <<"n", "e", "w", ".", "o", "r", "g", "/", "x">>

\* the data of the save messages: a note on a page of a known domain, a note
\* on a page of a domain no entity exists for
Captures ==
    {[url |-> u, title |-> <<"T">>, type |-> "note",
      content |-> <<"n", "o", "t", "e">>] : u \in {PageUrl, BareUrl}}

\* what host w reads: the committed tables and its own uncommitted statements
HostView(w) == ApplyAll(store, saver[w].pend)

\* another writer is at work while host w is: another host inside
\* save_observation, or the embedding process inside or after a pass that
\* started since w was called
OthersAtWork(w) ==
    \/ \E v \in Writers \ {w} : saver[v].pc # "idle"
    \/ pc # "idle"
    \/ saver[w].pc # "idle" /\ passes # saver[w].passes_at_start

\* another host's open transaction holds the row of entity e: it has updated
\* the row and not committed
RowHeld(w, e) ==
    \E v \in Writers \ {w} :
        \E k \in 1..Len(saver[v].pend) :
            saver[v].pend[k].op = "count_entity" /\ saver[v].pend[k].id = e

\* the same SELECT run against every host's uncommitted rows as well
lookup_entity_dirty(w, domain) ==
    LET inserted == UNION {{saver[v].pend[k].row :
                               k \in {j \in 1..Len(saver[v].pend) :
                                         saver[v].pend[j].op = "insert_entity"}} :
                           v \in Writers}
    IN  {e.id : e \in {x \in store.ent \cup inserted : x.name = domain}}

\* SELECT id FROM entities WHERE name = %s: the ids fetchone() may return
lookup_entity(w, domain) ==
    {e.id : e \in {x \in HostView(w).ent : x.name = domain}}

\* save_observation, lines 178-206, with get_or_create_entity: the entity of
\* the URL's domain is looked up; a found entity gets its count incremented,
\* which waits while another transaction holds the row; otherwise a new entity
\* with count 1 is inserted
GetOrCreateEntity(w) ==
    /\ saver[w].pc = "idle"
    /\ saves < MaxSaves
    /\ saves' = saves + 1
    /\ concurrent' = (concurrent \/ OthersAtWork(w))
    /\ \E data \in Captures :
          LET domain == entity_domain(data.url)
              result == lookup_entity(w, domain)
          IN  IF result # {}
                 THEN \E entity_id \in result :
                          /\ ~RowHeld(w, entity_id)
                          /\ saver' = [saver EXCEPT ![w] =
                                 [NoSave EXCEPT
                                     !.pc = "index", !.data = data,
                                     !.entity_id = entity_id,
                                     !.pend = <<[op |-> "count_entity",
                                                 id |-> entity_id]>>,
                                     !.passes_at_start = passes,
                                     !.existed = \E x \in store.ent :
                                                     x.name = domain]]
                          /\ next_entity_id' = next_entity_id
                 ELSE /\ saver' = [saver EXCEPT ![w] =
                             [NoSave EXCEPT
                                 !.pc = "index", !.data = data,
                                 !.entity_id = next_entity_id,
                                 !.pend = <<[op |-> "insert_entity",
                                             row |-> [id |-> next_entity_id,
                                                      name |-> domain,
                                                      observation_count |-> 1]]>>,
                                 !.passes_at_start = passes,
                                 !.existed = \E x \in store.ent :
                                                 x.name = domain]]
                      /\ next_entity_id' = next_entity_id + 1
    /\ UNCHANGED <<deletes, index_log>>
    /\ UNCHANGED <<pipevars, chunkvars, rankvars, classvars, bfvars,
                   loopvars, tagvars>>

\* lines 208-213: SELECT COALESCE(MAX(observation_index), 0) + 1
ReadNextIndex(w) ==
    /\ saver[w].pc = "index"
    /\ saver' = [saver EXCEPT
                    ![w].observation_index =
                        MaxIndex(HostView(w), saver[w].entity_id) + 1,
                    ![w].pc = "insert"]
    /\ concurrent' = (concurrent \/ OthersAtWork(w))
    /\ UNCHANGED <<next_entity_id, saves, deletes, index_log>>
    /\ UNCHANGED <<pipevars, chunkvars, rankvars, classvars, bfvars,
                   loopvars, tagvars>>

\* the row save_observation inserts
SavedRow(w) ==
    [id |-> next_id, entity_id |-> saver[w].entity_id,
     observation_text |-> Pack(observation_text(saver[w].data)),
     observation_index |-> saver[w].observation_index,
     source_type |-> "browser_extension",
     embedding |-> NoVec,
     created_at |-> clock]

\* lines 215-285: the text is built and the observation inserted
InsertObservation(w) ==
    /\ saver[w].pc = "insert"
    /\ saver' = [saver EXCEPT
                    ![w].pend = Append(@, [op |-> "insert", row |-> SavedRow(w)]),
                    ![w].observation_id = next_id,
                    ![w].pc = "commit"]
    /\ next_id' = next_id + 1
    /\ index_log' = index_log \cup
                        {Logged(SavedRow(w), MaxIndex(store, saver[w].entity_id))}
    /\ concurrent' = (concurrent \/ OthersAtWork(w))
    /\ UNCHANGED <<next_entity_id, saves, deletes>>
    /\ UNCHANGED <<store, pend, clock, pc, sel, oi, embedded_count, chunks,
                   max_index, new_obs_ids, ni, passes, last_call, last_search,
                   chunked_from>>
    /\ UNCHANGED <<chunkvars, rankvars, classvars, bfvars, loopvars, tagvars>>

\* a commit that a unique index on (entity_id, observation_index) guards: the
\* transaction of a clashing row is rolled back
SaveCommitUnique(w) ==
    /\ saver[w].pc = "commit"
    /\ store' = IF \E r \in store.obs :
                       /\ r.entity_id = saver[w].entity_id
                       /\ r.observation_index = saver[w].observation_index
                   THEN store
                   ELSE ApplyAll(store, saver[w].pend)
    /\ saver' = [saver EXCEPT ![w] = NoSave]
    /\ concurrent' = (concurrent \/ OthersAtWork(w))
    /\ UNCHANGED <<next_entity_id, saves, deletes, index_log>>
    /\ UNCHANGED <<pend, next_id, clock, pc, sel, oi, embedded_count, chunks,
                   max_index, new_obs_ids, ni, passes, last_call, last_search,
                   chunked_from>>
    /\ UNCHANGED <<chunkvars, rankvars, classvars, bfvars, loopvars, tagvars>>

\* lines 287-301: conn.commit() and the connection closed
SaveCommit(w) ==
    /\ saver[w].pc = "commit"
    /\ store' = ApplyAll(store, saver[w].pend)
    /\ saver' = [saver EXCEPT ![w] = NoSave]
    /\ concurrent' = (concurrent \/ OthersAtWork(w))
    /\ UNCHANGED <<next_entity_id, saves, deletes, index_log>>
    /\ UNCHANGED <<pend, next_id, clock, pc, sel, oi, embedded_count, chunks,
                   max_index, new_obs_ids, ni, passes, last_call, last_search,
                   chunked_from>>
    /\ UNCHANGED <<chunkvars, rankvars, classvars, bfvars, loopvars, tagvars>>

\* the embedding connection's open transaction holds the observation: it has
\* deleted or updated the row and not committed
ObservationHeld(id) ==
    \E k \in 1..Len(pend) : pend[k].op \in {"delete", "embed"} /\ pend[k].id = id

\* api_delete_observation: the row is deleted from observations if it is
\* there, else from observations_archive if it is there, else the answer is
\* 404; the DELETE waits while another transaction holds the row
DeleteObservation ==
    /\ deletes < MaxDeletes
    /\ deletes' = deletes + 1
    /\ \E obs_id \in 1..(next_id - 1) :
          /\ ~ObservationHeld(obs_id)
          /\ store' =
                IF \E r \in store.obs : r.id = obs_id
                   THEN ApplyOp(store, [op |-> "delete", id |-> obs_id])
                   ELSE IF \E r \in store.arch : r.id = obs_id
                           THEN ApplyOp(store, [op |-> "delete_archive",
                                                id |-> obs_id])
                           ELSE store
    /\ concurrent' = (concurrent \/ pc # "idle"
                         \/ \E w \in Writers : saver[w].pc # "idle")
    /\ UNCHANGED <<saver, next_entity_id, saves, index_log>>
    /\ UNCHANGED <<pend, next_id, clock, pc, sel, oi, embedded_count, chunks,
                   max_index, new_obs_ids, ni, passes, last_call, last_search,
                   chunked_from>>
    /\ UNCHANGED <<chunkvars, rankvars, classvars, bfvars, loopvars, tagvars>>

\* the store holds one observation of example.com, saved by the host, long
\* enough to be chunked and without an embedding
InitIngest ==
    /\ Init
    /\ \A r \in store.obs : r.observation_text = Pack(TwoSentenceNote)

\* Ollama answers the request of this step with a vector
OllamaUp == last_call'.primary \in {NoCall.primary, "ok"}

\* no writer is at work
Quiet == pc = "idle" /\ \A w \in Writers : saver[w].pc = "idle"

\* one writer at a time: a save_observation call, an embedding pass (while
\* Ollama is up) or a deletion begins when the one before has ended
NextIngest ==
    \/ \E w \in Writers : GetOrCreateEntity(w) /\ Quiet
    \/ \E w \in Writers : ReadNextIndex(w)
    \/ \E w \in Writers : InsertObservation(w)
    \/ \E w \in Writers : SaveCommit(w)
    \/ DeleteObservation /\ Quiet
    \/ StartPass /\ Quiet
    \/ BeginChunk
    \/ ChunkInsert
    \/ ChunkArchive
    \/ ChunkDelete
    \/ ChunkCommit
    \/ EmbedChunk /\ OllamaUp
    \/ ChunkEmbedCommit
    \/ EmbedOne /\ OllamaUp
    \/ FinalCommit

SpecIngest == InitIngest /\ [][NextIngest]_vars

\* one save_observation call for each host and one embedding pass (while
\* Ollama is up), at the same time
NextRace ==
    \/ \E w \in Writers : GetOrCreateEntity(w) /\ saves < Cardinality(Writers)
    \/ \E w \in Writers : ReadNextIndex(w)
    \/ \E w \in Writers : InsertObservation(w)
    \/ \E w \in Writers : SaveCommit(w)
    \/ StartPass /\ passes = 0
    \/ BeginChunk
    \/ ChunkInsert
    \/ ChunkArchive
    \/ ChunkDelete
    \/ ChunkCommit
    \/ EmbedChunk /\ OllamaUp
    \/ ChunkEmbedCommit
    \/ EmbedOne /\ OllamaUp
    \/ FinalCommit

SpecRace == InitIngest /\ [][NextRace]_vars

----------------------------------------------------------------------------
(* The tags of save_observation, lines 188-203: a tag is a text, the tags   *)
(* of a message are a list of texts or one text with commas.                *)

\* the most tags of a message
MaxTags == 2

\* "ai"
AiTag == <<"a", "i">>

\* "browser"
BrowserTag == <<"b", "r", "o", "w", "s", "e", "r">>

\* "research"
ResearchTag == <<"r", "e", "s", "e", "a", "r", "c", "h">>

\* "auto"
AutoCategory == <<"a", "u", "t", "o">>

\* the tags the extension's user types
TagWords == {AiTag, BrowserTag, ResearchTag}

\* the category of a message: the default, a chosen one, none
Categories == {AutoCategory, ResearchTag, AiTag, <<>>}

\* sep.join(items)
RECURSIVE JoinWith(_, _)
JoinWith(items, sep) ==
    IF items = <<>> THEN <<>>
    ELSE IF Len(items) = 1 THEN Head(items)
         ELSE Head(items) \o sep \o JoinWith(Tail(items), sep)

\* text.split(',')
RECURSIVE split_comma(_)
split_comma(text) ==
    LET i == FirstIndex(text, {","})
    IN  IF i > Len(text) THEN <<text>>
        ELSE <<Take(text, i - 1)>> \o split_comma(Drop(text, i))

\* [t.strip() for t in parts if t.strip()]
RECURSIVE stripped_nonempty(_)
stripped_nonempty(parts) ==
    IF parts = <<>> THEN <<>>
    ELSE (IF strip(Head(parts)) # <<>> THEN <<strip(Head(parts))>> ELSE <<>>)
             \o stripped_nonempty(Tail(parts))

\* x in tags
InList(x, tags) == \E k \in 1..Len(tags) : tags[k] = x

\* lines 189-203: the list save_observation inserts as tags
ingest_tags(category, tags) ==
    LET listed   == IF tags.kind = "str"
                       THEN stripped_nonempty(split_comma(tags.text))
                       ELSE tags.items
        with_cat == IF /\ category # <<>>
                       /\ category # AutoCategory
                       /\ ~InList(category, listed)
                       THEN Append(listed, category) ELSE listed
    IN  IF ~InList(BrowserTag, with_cat) THEN Append(with_cat, BrowserTag)
        ELSE with_cat

\* the lists of at most MaxTags tag words
TagLists == UNION {[1..n -> TagWords] : n \in 0..MaxTags}

\* metadata.tags of the messages: a list, or the same tags in one text with
\* "," or ", " between them
TagInputs ==
    {[kind |-> "list", items |-> l, text |-> <<>>] : l \in TagLists}
        \cup {[kind |-> "str", items |-> <<>>, text |-> JoinWith(l, sep)] :
                  l \in TagLists, sep \in {<<",">>, <<",", " ">>}}

nontagvars == <<chunkvars, pipevars, rankvars, classvars, savevars, bfvars,
                loopvars>>

\* a save message with a category and tags is about to be handled
InitTags ==
    /\ ChunkerOff
    /\ PipeIdle
    /\ RankOff
    /\ ClassifierOff
    /\ HostsIdle
    /\ BackfillOff
    /\ LoopOff
    /\ tg_category \in Categories
    /\ tg_tags \in TagInputs
    /\ tg_persisted = <<>>
    /\ tg_pc = "input"

\* save_observation, lines 188-203 and the tags parameter of the INSERT
IngestTags ==
    /\ tg_pc = "input"
    /\ tg_persisted' = ingest_tags(tg_category, tg_tags)
    /\ tg_pc' = "done"
    /\ UNCHANGED <<tg_category, tg_tags>>
    /\ UNCHANGED nontagvars

NextTags == IngestTags

SpecTags == InitTags /\ [][NextTags]_vars

----------------------------------------------------------------------------
(* The main loop of the native host: read_message, the dispatch of main and *)
(* send_message.  stdin is a sequence of bytes, kept as a sequence of      *)
(* segments: some bytes one by one, or one byte many times.  A message is   *)
(* a 4-byte length in native (little-endian) order and a JSON text in       *)
(* UTF-8.                                                                   *)

\* line 26
MAX_MESSAGE_SIZE == 1024 * 1024

\* the most messages of stdin
MaxFrames == 2

\* the most calls of read_message
MaxReads == 4

\* the host whose main loop runs
Host == "host1"

\* the printable ASCII characters, from " " (32) to "~" (126); "grave" stands
\* for the grave accent (96), which no text of the messages holds
Ascii ==
    <<" ", "!", "\"", "#", "$", "%", "&", "'", "(", ")", "*", "+", ",", "-",
      ".", "/", "0", "1", "2", "3", "4", "5", "6", "7", "8", "9", ":", ";",
      "<", "=", ">", "?", "@">> \o UpperCase \o
    <<"[", "\\", "]", "^", "_", "grave">> \o LowerCase \o <<"{", "|", "}", "~">>

\* ord(c)
ord(c) == 31 + CHOOSE k \in 1..Len(Ascii) : Ascii[k] = c

\* text.encode('utf-8')
encode(text) == [i \in 1..Len(text) |-> ord(text[i])]

\* bytes.decode('utf-8') gives a printable text
Printable(bytes) == \A i \in 1..Len(bytes) : bytes[i] \in 32..126

decode(bytes) == [i \in 1..Len(bytes) |-> Ascii[bytes[i] - 31]]

\* struct.pack('=I', n)
pack_I(n) ==
    <<n % 256, (n \div 256) % 256, (n \div 65536) % 256,
      (n \div 16777216) % 256>>

\* struct.unpack('=I', raw)[0]
unpack_I(raw) == raw[1] + 256 * raw[2] + 65536 * raw[3] + 16777216 * raw[4]

\* a segment of a byte stream: these bytes, or the byte b n times
Literal(bytes) == [bytes |-> bytes, rep |-> 1]
Run(b, n) == [bytes |-> <<b>>, rep |-> n]

SegLen(seg) == Len(seg.bytes) * seg.rep

\* the number of bytes of a stream
RECURSIVE StreamLen(_)
StreamLen(p) == IF p = <<>> THEN 0 ELSE SegLen(Head(p)) + StreamLen(Tail(p))

\* stdin.buffer.read(k): the first k bytes of the stream, fewer at its end
RECURSIVE TakeBytes(_, _)
TakeBytes(p, k) ==
    IF k = 0 \/ p = <<>> THEN <<>>
    ELSE LET seg == Head(p)
             m   == IF SegLen(seg) < k THEN SegLen(seg) ELSE k
         IN  (IF seg.rep = 1 THEN SubSeq(seg.bytes, 1, m)
              ELSE [i \in 1..m |-> seg.bytes[1]])
                 \o TakeBytes(Tail(p), k - m)

\* the stream behind its first k bytes
RECURSIVE DropBytes(_, _)
DropBytes(p, k) ==
    IF k = 0 \/ p = <<>> THEN p
    ELSE LET seg == Head(p)
         IN  IF SegLen(seg) <= k THEN DropBytes(Tail(p), k - SegLen(seg))
             ELSE IF seg.rep = 1
                     THEN <<Literal(SubSeq(seg.bytes, k + 1, Len(seg.bytes)))>>
                              \o Tail(p)
                     ELSE <<Run(seg.bytes[1], seg.rep - k)>> \o Tail(p)

\* "text"
Quote(text) == <<"\"">> \o text \o <<"\"">>

\* "key":value
Member(key, value) == Quote(key) \o <<":">> \o value

\* {member,member}
Object(members) == <<"{">> \o JoinWith(members, <<",">>) \o <<"}">>

\* the characters of a capture type
TypeText(capture_type) ==
    CASE capture_type = "note" -> <<"n", "o", "t", "e">>
      [] capture_type = "selection" ->
             <<"s", "e", "l", "e", "c", "t", "i", "o", "n">>
      [] capture_type = "page" -> <<"p", "a", "g", "e">>
      [] OTHER -> <<"u", "n", "k", "n", "o", "w", "n">>

\* the JSON values the extension's messages hold: a ping, a save of each
\* capture, an action the host does not know, and two values that are no
\* objects
PingMessage == [type |-> "dict", action |-> "ping", data |-> <<>>]
StatsMessage == [type |-> "dict", action |-> "stats", data |-> <<>>]
SaveMessage(capture) == [type |-> "dict", action |-> "save", data |-> capture]
NullValue == [type |-> "null", action |-> "none", data |-> <<>>]
ListValue == [type |-> "list", action |-> "none", data |-> <<>>]

Documents ==
    {PingMessage, StatsMessage, NullValue, ListValue}
        \cup {SaveMessage(c) : c \in Captures}

\* the characters of an action
ActionText(action) ==
    CASE action = "ping" -> <<"p", "i", "n", "g">>
      [] action = "save" -> <<"s", "a", "v", "e">>
      [] OTHER -> <<"s", "t", "a", "t", "s">>

\* JSON.stringify of a capture
dumps_capture(c) ==
    Object(<<Member(<<"u", "r", "l">>, Quote(c.url)),
             Member(<<"t", "i", "t", "l", "e">>, Quote(c.title)),
             Member(<<"t", "y", "p", "e">>, Quote(TypeText(c.type))),
             Member(<<"c", "o", "n", "t", "e", "n", "t">>, Quote(c.content))>>)

\* JSON.stringify of a value
dumps(d) ==
    CASE d.type = "null" -> <<"n", "u", "l", "l">>
      [] d.type = "list" -> <<"[", "]">>
      [] OTHER ->
             Object(<<Member(<<"a", "c", "t", "i", "o", "n">>,
                             Quote(ActionText(d.action)))>>
                    \o IF d.data = <<>> THEN <<>>
                       ELSE <<Member(<<"d", "a", "t", "a">>,
                                     dumps_capture(d.data))>>)

\* a text that is no JSON: {"action"
BadText == <<"{">> \o Quote(<<"a", "c", "t", "i", "o", "n">>)

\* json.loads raises: the bytes are no text, or the text is none of the
\* documents (the byte strings of the streams below that are none of them are
\* cut documents or hold a byte of a length header)
Raises == [type |-> "raises", action |-> "none", data |-> <<>>]

\* json.loads(bytes.decode('utf-8'))
json_loads(bytes) ==
    IF ~Printable(bytes) THEN Raises
    ELSE LET text == decode(bytes)
         IN  IF \E d \in Documents : dumps(d) = text
                THEN CHOOSE d \in Documents : dumps(d) = text
                ELSE Raises

\* the frame Chrome writes for a text: length, then the text
Frame(text) == <<Literal(pack_I(Len(text)) \o encode(text))>>

\* the frame of a message over the limit: a JSON string of MAX_MESSAGE_SIZE
\* characters "a"
OversizeFrame ==
    <<Literal(pack_I(MAX_MESSAGE_SIZE + 2) \o <<ord("\"")>>),
      Run(ord("a"), MAX_MESSAGE_SIZE),
      Literal(<<ord("\"")>>)>>

FramePool ==
    {Frame(dumps(d)) : d \in Documents} \cup {Frame(BadText), OversizeFrame}

\* the frames one behind the other
RECURSIVE Concat(_)
Concat(frames) ==
    IF frames = <<>> THEN <<>> ELSE Head(frames) \o Concat(Tail(frames))

\* the responses of main
Pong == [success |-> TRUE, kind |-> "pong"]
Saved == [success |-> TRUE, kind |-> "saved"]
SaveFailed == [success |-> FALSE, kind |-> "save_failed"]
UnknownAction == [success |-> FALSE, kind |-> "unknown_action"]
ExceptionResponse == [success |-> FALSE, kind |-> "exception"]

nonloopvars == <<chunkvars, pipevars, rankvars, classvars, bfvars, tagvars>>

\* the host starts on a stdin of at most MaxFrames messages; the store holds
\* one observation of example.com
InitHost ==
    /\ InitPipeline
    /\ \A r \in store.obs : r.observation_text = Pack(TwoSentenceNote)
    /\ BackfillOff
    /\ TagsOff
    /\ \E n \in 0..MaxFrames :
          \E frames \in [1..n -> FramePool] :
              /\ h_stdin = Concat(frames)
              /\ h_starts = {StreamLen(Concat(SubSeq(frames, 1, k))) :
                                k \in 0..n}
    /\ h_stdout = <<>>
    /\ h_pc = "read"
    /\ h_reads = 0
    /\ h_data = <<>>
    /\ h_log = <<>>
    /\ h_eof = FALSE
    /\ h_offset = 0
    /\ h_saves_at_call = 0
    /\ h_store_at_call = <<>>

\* read_message, lines 52-63: what the call gives and how many bytes it reads
read_message(stdin) ==
    LET raw_length == TakeBytes(stdin, 4)
        body       == DropBytes(stdin, 4)
    IN  IF raw_length = <<>>
           THEN [kind |-> "eof", read |-> 0, message |-> NullValue]
        ELSE IF Len(raw_length) < 4
           THEN [kind |-> "raised", read |-> Len(raw_length),
                 message |-> Raises]
        ELSE IF unpack_I(raw_length) > MAX_MESSAGE_SIZE
           THEN [kind |-> "oversize", read |-> 4, message |-> StatsMessage]
        ELSE LET bytes   == TakeBytes(body, unpack_I(raw_length))
                 message == json_loads(bytes)
             IN  [kind |-> IF message.type = "raises" THEN "raised"
                           ELSE "message",
                  read |-> 4 + Len(bytes),
                  message |-> message]

\* main, lines 315-340: one turn of the loop up to the response, or up to the
\* call of save_observation
ReadMessage ==
    /\ h_pc = "read"
    /\ h_reads < MaxReads
    /\ h_reads' = h_reads + 1
    /\ LET got == read_message(h_stdin)
           m   == got.message
       IN  /\ h_stdin' = DropBytes(h_stdin, got.read)
           /\ h_offset' = h_offset + got.read
           /\ h_eof' = (got.kind = "eof")
           /\ IF got.kind = "eof"
                 THEN /\ h_pc' = "ended"
                      /\ UNCHANGED <<h_stdout, h_log, h_data, h_saves_at_call,
                                     h_store_at_call>>
              ELSE IF got.kind = "raised"
                 THEN /\ h_log' = Append(h_log, [kind |-> "raised"])
                      /\ h_stdout' = Append(h_stdout, ExceptionResponse)
                      /\ UNCHANGED <<h_pc, h_data, h_saves_at_call,
                                     h_store_at_call>>
              ELSE IF got.kind = "oversize"
                 THEN /\ h_log' = Append(h_log, [kind |-> "oversize"])
                      /\ h_stdout' = Append(h_stdout, UnknownAction)
                      /\ UNCHANGED <<h_pc, h_data, h_saves_at_call,
                                     h_store_at_call>>
              ELSE IF m.type = "null"
                 THEN /\ h_log' = Append(h_log, [kind |-> "null"])
                      /\ h_pc' = "ended"
                      /\ UNCHANGED <<h_stdout, h_data, h_saves_at_call,
                                     h_store_at_call>>
              ELSE IF m.type # "dict"
                 THEN /\ h_log' = Append(h_log, [kind |-> "not_dict"])
                      /\ h_stdout' = Append(h_stdout, ExceptionResponse)
                      /\ UNCHANGED <<h_pc, h_data, h_saves_at_call,
                                     h_store_at_call>>
              ELSE IF m.action = "save"
                 THEN /\ h_log' = Append(h_log, [kind |-> "save"])
                      /\ h_pc' = "save"
                      /\ h_data' = m.data
                      /\ h_saves_at_call' = saves
                      /\ h_store_at_call' = store
                      /\ UNCHANGED h_stdout
              ELSE IF m.action = "ping"
                 THEN /\ h_log' = Append(h_log, [kind |-> "ping"])
                      /\ h_stdout' = Append(h_stdout, Pong)
                      /\ UNCHANGED <<h_pc, h_data, h_saves_at_call,
                                     h_store_at_call>>
              ELSE /\ h_log' = Append(h_log, [kind |-> "other"])
                   /\ h_stdout' = Append(h_stdout, UnknownAction)
                   /\ UNCHANGED <<h_pc, h_data, h_saves_at_call,
                                  h_store_at_call>>
    /\ UNCHANGED h_starts
    /\ UNCHANGED savevars
    /\ UNCHANGED nonloopvars

\* save_observation has returned its success
SaveReturned == saver[Host].pc = "idle" /\ saves > h_saves_at_call

\* save_observation(message.get('data', {})) begins with the data of the message
SaveStarts ==
    /\ h_pc = "save"
    /\ saves = h_saves_at_call
    /\ GetOrCreateEntity(Host)
    /\ saver'[Host].data = h_data

\* a failing step whose statements are committed all the same
SaveFailsCommitting(w) ==
    /\ saver[w].pc \in {"idle", "index", "insert", "commit"}
    /\ saver' = [saver EXCEPT ![w] = [NoSave EXCEPT !.pc = "failed"]]
    /\ store' = ApplyAll(store, saver[w].pend)
    /\ UNCHANGED <<next_entity_id, saves, deletes, concurrent, index_log>>
    /\ UNCHANGED <<pend, next_id, clock, pc, sel, oi, embedded_count, chunks,
                   max_index, new_obs_ids, ni, passes, last_call, last_search,
                   chunked_from>>
    /\ UNCHANGED <<chunkvars, rankvars, classvars, bfvars, loopvars, tagvars>>

\* save_observation, lines 303-308: a step raises (the connection fails, a
\* statement fails, the commit fails); the except branch returns the failure,
\* the connection is dropped without a commit and the server rolls back
SaveFails(w) ==
    /\ saver[w].pc \in {"idle", "index", "insert", "commit"}
    /\ saver' = [saver EXCEPT ![w] = [NoSave EXCEPT !.pc = "failed"]]
    /\ UNCHANGED <<next_entity_id, saves, deletes, concurrent, index_log>>
    /\ UNCHANGED <<pipevars, chunkvars, rankvars, classvars, bfvars,
                   loopvars, tagvars>>

\* main, line 327: send_message(response)
SendSaveResponse ==
    /\ h_pc = "save"
    /\ saver[Host].pc = "failed" \/ SaveReturned
    /\ h_stdout' = Append(h_stdout, IF saver[Host].pc = "failed"
                                       THEN SaveFailed ELSE Saved)
    /\ saver' = [saver EXCEPT ![Host] = NoSave]
    /\ h_pc' = "read"
    /\ h_data' = <<>>
    /\ UNCHANGED <<h_stdin, h_reads, h_log, h_eof, h_offset, h_starts,
                   h_saves_at_call, h_store_at_call>>
    /\ UNCHANGED <<next_entity_id, saves, deletes, concurrent, index_log>>
    /\ UNCHANGED nonloopvars

NextHost ==
    \/ ReadMessage
    \/ SaveStarts
    \/ ReadNextIndex(Host)
    \/ InsertObservation(Host)
    \/ SaveCommit(Host)
    \/ h_pc = "save" /\ ~SaveReturned /\ SaveFails(Host)
    \/ SendSaveResponse

SpecHost == InitHost /\ [][NextHost]_vars

----------------------------------------------------------------------------
(* The backfill pass of scripts/backfill_metadata.py: backfill_observations  *)
(* run on the table observations.  A row of bf_table holds the columns of   *)
(* its SELECT; tags = <<>> stands for NULL and for the empty array, which   *)
(* the WHERE clause and process_observation both take for "no tags".        *)

\* the most rows of the table
MaxTable == 2

\* line 270: conn.commit() every 500 updates
commit_every == 500

\* the observation texts of the table: one with six tags, one that matches no
\* tag pattern, one with one tag
BackfillTexts == {StackPhrase, FixedPhrase, LowPhrase}

nonbfvars == <<chunkvars, pipevars, rankvars, classvars, savevars,
               loopvars, tagvars>>

\* WHERE o.tags IS NULL OR array_length(o.tags, 1) IS NULL
Untagged(table) == {r \in table : Len(r.tags) = 0}

\* lines 216-227: the SELECT, ORDER BY o.id, with the optional LIMIT
BackfillSelect(limit) ==
    LET ids  == SortSet({r.id : r \in Untagged(bf_table)})
        rows == [k \in 1..Len(ids) |-> CHOOSE r \in bf_table : r.id = ids[k]]
    IN  IF limit # 0 THEN Take(rows, limit) ELSE rows

\* lines 233-242: the results of process_observation that are not None
RECURSIVE Updates(_)
Updates(observations) ==
    IF observations = <<>> THEN <<>>
    ELSE process_observation(Head(observations), {<<>>})
             \o Updates(Tail(observations))

\* lines 262-268: UPDATE ... SET observation_type, importance, tags WHERE id
SetMetadata(table, u) ==
    {IF r.id = u.id
        THEN [r EXCEPT !.observation_type = u.observation_type,
                       !.importance = u.importance,
                       !.tags = u.tags]
        ELSE r : r \in table}

\* the table after the UPDATEs of a transaction
RECURSIVE ApplyUpdates(_, _)
ApplyUpdates(table, ops) ==
    IF ops = <<>> THEN table
    ELSE ApplyUpdates(SetMetadata(table, Head(ops)), Tail(ops))

\* the ids of a list of updates
UpdatedIds(updates) == {updates[k].id : k \in 1..Len(updates)}

\* the table holds 1..MaxTable observations; some were tagged before, the
\* others have no tags and no type yet
BackfillReady ==
    /\ \E n \in 1..MaxTable :
          \E txt \in [1..n -> BackfillTexts], tagged \in SUBSET (1..n) :
              bf_table = {[id |-> i, observation_text |-> txt[i],
                           entity_name |-> ExampleDomain,
                           tags |-> IF i \in tagged THEN <<"legacy">> ELSE <<>>,
                           observation_type |->
                               IF i \in tagged THEN "note" ELSE "none",
                           importance |-> 50] : i \in 1..n}
    /\ bf_pend = <<>>
    /\ bf_updates = <<>>
    /\ bf_i = 0
    /\ bf_pc = "idle"
    /\ bf_passes = 0
    /\ bf_ended = "none"
    /\ bf_before = {}
    /\ bf_failed = 0

\* the backfill on its own
InitBackfill ==
    /\ ChunkerOff
    /\ PipeIdle
    /\ RankOff
    /\ ClassifierOff
    /\ HostsIdle
    /\ BackfillReady
    /\ LoopOff
    /\ TagsOff

\* main and backfill_observations, lines 210-258: the SELECT, the loop over
\* process_observation, and with --dry-run the end of the pass
StartBackfill ==
    /\ bf_pc = "idle"
    /\ bf_passes < MaxPasses
    /\ bf_passes' = bf_passes + 1
    /\ \E dry_run \in BOOLEAN, limit \in 0..MaxLimit :
          /\ bf_updates' = Updates(BackfillSelect(limit))
          /\ IF dry_run
                THEN bf_pc' = "idle" /\ bf_i' = 0 /\ bf_ended' = "dry_run"
                ELSE bf_pc' = "apply" /\ bf_i' = 1 /\ bf_ended' = "running"
    /\ bf_before' = IF bf_ended = "completed" THEN UpdatedIds(bf_updates)
                    ELSE {}
    /\ bf_failed' = 0
    /\ UNCHANGED <<bf_table, bf_pend>>
    /\ UNCHANGED nonbfvars

\* lines 261-272: one turn of the loop over updates
ApplyUpdate ==
    /\ bf_pc = "apply"
    /\ bf_i <= Len(bf_updates)
    /\ LET ops == Append(bf_pend, bf_updates[bf_i])
       IN  IF bf_i % commit_every = 0
              THEN bf_table' = ApplyUpdates(bf_table, ops) /\ bf_pend' = <<>>
              ELSE bf_pend' = ops /\ UNCHANGED bf_table
    /\ bf_i' = bf_i + 1
    /\ UNCHANGED <<bf_updates, bf_pc, bf_passes, bf_ended, bf_before, bf_failed>>
    /\ UNCHANGED nonbfvars

\* lines 274-277: the final conn.commit(), the connection closed
BackfillCommit ==
    /\ bf_pc = "apply"
    /\ bf_i > Len(bf_updates)
    /\ bf_table' = ApplyUpdates(bf_table, bf_pend)
    /\ bf_pend' = <<>>
    /\ bf_i' = 0
    /\ bf_pc' = "idle"
    /\ bf_ended' = "completed"
    /\ UNCHANGED <<bf_updates, bf_passes, bf_before, bf_failed>>
    /\ UNCHANGED nonbfvars

\* lines 262-268: cur.execute raises on one update (a lock timeout, a lost
\* connection); no try encloses it, the process ends with the traceback and
\* the server rolls the open transaction back
UpdateRaises ==
    /\ bf_pc = "apply"
    /\ bf_i <= Len(bf_updates)
    /\ bf_failed' = bf_updates[bf_i].id
    /\ bf_pend' = <<>>
    /\ bf_i' = 0
    /\ bf_pc' = "idle"
    /\ bf_ended' = "failed"
    /\ UNCHANGED <<bf_table, bf_updates, bf_passes, bf_before>>
    /\ UNCHANGED nonbfvars

NextBackfill ==
    \/ StartBackfill
    \/ ApplyUpdate
    \/ BackfillCommit
    \/ UpdateRaises

SpecBackfill == InitBackfill /\ [][NextBackfill]_vars

\* the two enrichment scripts on one database: MaxObs observations for the
\* embedding pass, the newest a short note or a note of two sentences without
\* an embedding,
\* and for the backfill a table of MaxTable rows of which the first has no
\* tags yet
InitEnrich ==
    /\ BackfillReady
    /\ Cardinality(bf_table) = MaxTable
    /\ LoopOff
    /\ TagsOff
    /\ \A r \in bf_table : /\ r.observation_text = StackPhrase
                            /\ Len(r.tags) = 0 <=> r.id = 1
    /\ InitPipeline
    /\ Cardinality(store.obs) = MaxObs
    /\ \E r \in store.obs : /\ r.embedding = NoVec
                             /\ r.observation_text \in
                                    {Pack(ShortNote), Pack(TwoSentenceNote)}

\* the scripts are run one after the other, one pass of each: the backfill,
\* then the embedding
NextEnrich ==
    \/ bf_passes = 0 /\ StartBackfill
    \/ ApplyUpdate
    \/ BackfillCommit
    \/ UpdateRaises
    \/ bf_pc = "idle" /\ bf_passes > 0 /\ passes = 0 /\ StartPass
    \/ BeginChunk
    \/ ChunkInsert
    \/ ChunkArchive
    \/ ChunkDelete
    \/ ChunkCommit
    \/ EmbedChunk
    \/ ChunkEmbedCommit
    \/ EmbedOne
    \/ FinalCommit
    \/ Crash

SpecEnrich == InitEnrich /\ [][NextEnrich]_vars

----------------------------------------------------------------------------
(* Properties of the chunker, checked under SpecChunk *)

\* the text without any whitespace
NoSpace(s) == SelectSeq(s, LAMBDA c : c \notin Space)

\* ' '.join(segments)
RECURSIVE JoinBySpace(_)
JoinBySpace(ss) ==
    IF ss = <<>> THEN <<>>
    ELSE IF Len(ss) = 1 THEN Head(ss)
         ELSE Head(ss) \o <<" ">> \o JoinBySpace(Tail(ss))

\* the non-blank sentences of a text, trimmed
Sentences(t) == StripNonBlank(re_split_sentences(t))

\* the sentences of every segment, in segment order
RECURSIVE SentencesOfAll(_)
SentencesOfAll(ss) ==
    IF ss = <<>> THEN <<>> ELSE Sentences(Head(ss)) \o SentencesOfAll(Tail(ss))

\* a parenthesized ordinal starts at position p
OrdinalAt(t, p) ==
    \E n \in 1..Len(t) :
        /\ p + n + 1 <= Len(t)
        /\ t[p] = "("
        /\ \A k \in (p+1)..(p+n) : t[k] \in Digits
        /\ t[p + n + 1] = ")"

HasOrdinal(t) == \E p \in 1..Len(t) : OrdinalAt(t, p)

\* the pieces of t cut immediately before each ordinal marker
MarkerPieces(t) ==
    LET cuts == {1} \cup {p \in 1..Len(t) : OrdinalAt(t, p)}
        c    == SortSet(cuts)
    IN  [j \in 1..Len(c) |->
            SubSeq(t, c[j], IF j = Len(c) THEN Len(t) ELSE c[j+1] - 1)]

\* C3 (as claimed): every persisted chunk i of N is the shared prefix, then
\* "(Part i/N)", then the chunk's content, and the contents taken in part order
\* after the prefix give back the original text (compared without whitespace):
\* no character of any chunk is dropped.
C3_PartsReassembleOriginal ==
    cpc = "persisted" =>
        LET prefix  == date_prefix(ctext)
            n       == Len(cchunks)
            head(i) == (IF prefix # <<>> THEN prefix \o <<" ">> ELSE <<>>)
                           \o PartTag(i, n) \o <<" ">>
            body    == [i \in 1..n |-> Drop(cparts[i], Len(head(i)))]
        IN  /\ Len(cparts) = n
            /\ \A i \in 1..n : Take(cparts[i], Len(head(i))) = head(i)
            /\ NoSpace(prefix \o Flatten(body)) = NoSpace(ctext)

\* C4 (as claimed): for a text longer than max_size the result is a non-empty
\* list of non-empty chunks, each of length <= max_size, except possibly the last
\* one when the hard fallback produced it.
C4_ChunksNonEmptyWithinMaxSize ==
    (cpc # "input" /\ Len(ctext) > cmax) =>
        /\ cchunks # <<>>
        /\ \A i \in 1..Len(cchunks) :
              /\ cchunks[i] # <<>>
              /\ \/ Len(cchunks[i]) <= cmax
                 \/ i = Len(cchunks) /\ UsesHardFallback(ctext, cmax)

\* C5: the segments joined by whitespace reproduce the input up to whitespace
\* (nothing dropped, nothing duplicated, order kept), and on the sentence path
\* every sentence of the input lies in exactly one segment, in input order.
C5_SegmentsReproduceInput ==
    cpc # "input" =>
        /\ cchunks # <<>>
        /\ NoSpace(JoinBySpace(cchunks)) = NoSpace(ctext)
        /\ cchunks = SentenceChunks(ctext, cmax)
              => SentencesOfAll(cchunks) = Sentences(ctext)

\* C5 witness: a text of several sentences was accumulated into several segments.
C5_Witness ==
    /\ cpc = "chunked"
    /\ Len(cchunks) >= 2
    /\ Len(Sentences(ctext)) >= 3
    /\ ~HasOrdinal(ctext)

\* C6 (as claimed): with ordinal markers in the text, if every non-blank piece
\* has length <= max_size the result is those pieces, else the sentence split of
\* the whole text.
C6_TopicalSplitFitsInclusive ==
    (cpc # "input" /\ HasOrdinal(ctext)) =>
        IF \A i \in 1..Len(MarkerPieces(ctext)) :
               strip(MarkerPieces(ctext)[i]) # <<>>
                   => Len(MarkerPieces(ctext)[i]) <= cmax
           THEN cchunks = StripNonBlank(MarkerPieces(ctext))
           ELSE cchunks = SentenceChunks(ctext, cmax)

\* C6 (amended): with ordinal markers in the text, if every non-blank piece, as
\* cut and before trimming, is strictly shorter than max_size the result is
\* those pieces trimmed, in order; otherwise (a piece of length exactly max_size
\* included) it is the sentence split of the whole text.
C6_TopicalSplitFitsStrict ==
    (cpc # "input" /\ HasOrdinal(ctext)) =>
        IF \A i \in 1..Len(MarkerPieces(ctext)) :
               strip(MarkerPieces(ctext)[i]) # <<>>
                   => Len(MarkerPieces(ctext)[i]) < cmax
           THEN cchunks = StripNonBlank(MarkerPieces(ctext))
           ELSE cchunks = SentenceChunks(ctext, cmax)

\* C6 witness: two markers, every piece fits, one segment starts at each marker.
C6_Witness ==
    /\ cpc = "chunked"
    /\ Cardinality({p \in 1..Len(ctext) : OrdinalAt(ctext, p)}) = 2
    /\ Len(cchunks) = 2
    /\ \A i \in 1..2 : OrdinalAt(cchunks[i], 1)

\* C7 (as claimed): a text with no ordinal marker and no sentence boundary gives
\* exactly one segment, the text truncated to max_size (compared after trimming).
C7_HardFallbackTruncates ==
    (cpc # "input" /\ ~HasOrdinal(ctext) /\ Len(re_split_sentences(ctext)) = 1) =>
        /\ Len(cchunks) = 1
        /\ strip(cchunks[1]) = strip(Take(ctext, cmax))

----------------------------------------------------------------------------
(* Properties of the embedding pass, checked under Spec *)

\* a committed active row has this id
Active(id) == \E r \in store.obs : r.id = id

\* a committed archive row has this id
Archived(id) == \E r \in store.arch : r.id = id

\* the chunk rows ever inserted for observation o that are committed
CommittedChunksOf(o) == {q \in chunked_from : q.of = o /\ Active(q.chunk)}

\* C1: whatever point of chunk_long_observation a crash or a store error hits,
\* the committed store holds, for every observation the chunking was started
\* on, either the active original with none of its chunk rows and no archive
\* copy, or all N chunk rows of one run with the archive copy and without the
\* active original.
C1_ChunkingIsAtomic ==
    \A o \in {q.of : q \in chunked_from} :
        LET made == CommittedChunksOf(o)
        IN  \/ made = {} /\ Active(o) /\ ~Archived(o)
            \/ /\ ~Active(o)
               /\ Archived(o)
               /\ Cardinality(made) >= 2
               /\ {q.part : q \in made} = 1..Cardinality(made)
               /\ \A q \in made : q.total = Cardinality(made)

\* C1 witness: the process ended after chunk rows were inserted and before the
\* commit: the rows are gone and the original is still active.
C1_Witness ==
    /\ pc = "idle"
    /\ \E q \in chunked_from : ~Active(q.chunk) /\ Active(q.of) /\ ~Archived(q.of)

\* C2: when chunk_long_observation has returned the ids of N >= 2 chunk rows
\* for observation O, the archive holds a row with O's id and O's text as it
\* was read, no active row has O's id, and every returned id is an active row
\* of O's entity.
C2_ArchivedAndReplaced ==
    (pc = "embed_chunks" /\ ni = 1) =>
        /\ Len(new_obs_ids) >= 2
        /\ \E a \in store.arch :
              a.id = Obs.id /\ a.observation_text = Obs.observation_text
        /\ ~Active(Obs.id)
        /\ \A k \in 1..Len(new_obs_ids) :
              \E r \in store.obs :
                  r.id = new_obs_ids[k] /\ r.entity_id = Obs.entity_id

\* C2 witness: a long observation was cut into three chunk rows and the call
\* has just returned.
C2_Witness ==
    /\ pc = "embed_chunks"
    /\ ni = 1
    /\ Len(new_obs_ids) = 3
    /\ Archived(Obs.id)

----------------------------------------------------------------------------
(* Properties of the provider chain and the search, checked under           *)
(* SpecRetrieval, and under SpecSearch where the command line's search is   *)
(* concerned                                                                *)

\* C8: in every run of the provider chain Ollama is contacted first and LM
\* Studio is contacted exactly when Ollama gave no vector; the result is the
\* vector of the first provider that gave one, and there is no result exactly
\* when both gave none.
C8_FallbackOnlyAfterPrimaryFails ==
    last_call.site # "none" =>
        /\ last_call.contacted \in {<<"ollama">>, <<"ollama", "lmstudio">>}
        /\ Len(last_call.contacted) = 2 <=> last_call.primary = "failed"
        /\ last_call.primary = "ok" => last_call.embedding = Vec("ollama")
        /\ (last_call.primary = "failed" /\ last_call.fallback = "ok")
              => last_call.embedding = Vec("lmstudio")
        /\ last_call.embedding = NoVec
              <=> (last_call.primary = "failed" /\ last_call.fallback = "failed")

\* C8 witness: while embedding an observation Ollama failed and LM Studio's
\* vector was returned.
C8_Witness ==
    /\ last_call.site = "embed"
    /\ last_call.primary = "failed"
    /\ last_call.fallback = "ok"
    /\ last_call.contacted = <<"ollama", "lmstudio">>
    /\ last_call.embedding = Vec("lmstudio")

\* C9: in a search whose query reached the providers, a failed primary with a
\* fallback vector gives a 200 run with that vector and embedding_source
\* 'lmstudio'; embedding_source is 'ollama' exactly when the primary gave a
\* vector; a 200 response names the provider whose vector was used.
C9_SourceNamesUsedProvider ==
    (last_call.site = "search" /\ last_search.status \in {200, 503}) =>
        /\ (last_call.primary = "failed" /\ last_call.fallback = "ok")
              => /\ last_search.status = 200
                 /\ last_search.used = Vec("lmstudio")
                 /\ last_search.embedding_source = "lmstudio"
        /\ last_search.embedding_source = "ollama" <=> last_call.primary = "ok"
        /\ last_search.status = 200
              => last_search.embedding_source = last_search.used.space

\* C9 witness: a search answered 200 with LM Studio's vector after Ollama failed.
C9_Witness ==
    /\ last_call.site = "search"
    /\ last_call.primary = "failed"
    /\ last_search.status = 200
    /\ last_search.embedding_source = "lmstudio"

\* C10 (as claimed): every stored vector a 200 search compares the query vector
\* with was produced by the provider that produced the query vector.
C10_SearchComparesOneProvider ==
    last_search.status = 200 =>
        \A space \in last_search.compared : space = last_search.used.space

\* what the caller of a retrieval entry point receives
SearchResponse(s) == [status |-> s.status, rows |-> s.cli_rows]

\* what the caller receives from a search that ran and matched nothing
ZeroMatches(entry) == [status |-> IF entry = "api" THEN 200 ELSE 0, rows |-> {}]

\* C11 (as claimed): when the query reached the providers and none embedded it,
\* no similarity query is issued and what the caller receives differs from what
\* a search that ran and matched nothing gives, in api_semantic_search and in
\* semantic_search.
C11_NoProviderIsDistinctFailure ==
    (last_search.entry # "none" /\ last_search.status # 400
        /\ last_search.used = NoVec) =>
        /\ ~last_search.queried
        /\ SearchResponse(last_search) # ZeroMatches(last_search.entry)

----------------------------------------------------------------------------
(* Properties of the ranking, checked under SpecRank *)

\* the rows the request ranks, and those among them that pass the floor
Candidates == combined(rk_active, rk_archive, rk_include_archive)
Qualifying ==
    {r \in Candidates : r.similarity >= clamp_min_similarity(rk_min_similarity)}

RowOf(res) ==
    CHOOSE r \in rk_active \cup rk_archive :
        r.id = res.id /\ r.storage = res.storage

\* C13 (as claimed): every formatted result has no embedding field and a
\* numeric similarity, the computed one rounded to 4 decimal digits, a
\* similarity of exactly 0 under min_similarity 0 included.
C13_ResultsCarryNumericSimilarity ==
    rk_pc = "formatted" =>
        \A i \in 1..Len(rk_results) :
            /\ ~rk_results[i].embedding
            /\ rk_results[i].similarity = <<round4(RowOf(rk_results[i]).similarity)>>

----------------------------------------------------------------------------
(* Properties of the classifier, checked under SpecClassify *)

\* the results that process_observation returned for cl_obs, None left out
Enrichments == {cl_results[i][1] : i \in {j \in 1..Len(cl_results) :
                                              cl_results[j] # <<>>}}

\* the fixed vocabulary order of the types
TypeOrder == <<"technical_achievement", "milestone", "insight",
               "project_update", "research", "decision", "problem",
               "reference">>

\* the total match count of every type in the text of cl_obs
TypeScores ==
    [k \in 1..Len(TYPE_PATTERNS) |->
        type_score(TYPE_PATTERNS[k], lower(cl_obs.observation_text))]

\* C14: the inferred type is the type with the highest total match count, the
\* first in the vocabulary order among those that tie, and 'note' when nothing
\* matches; a text with 'successfully' once, 'fixed' once, one 'problem' match
\* and no other match is a technical_achievement.
C14_HighestCountFirstDeclared ==
    Enrichments # {} =>
        LET sc == TypeScores
            text_lower == lower(cl_obs.observation_text)
        IN  \A e \in Enrichments :
                /\ [k \in 1..Len(TYPE_PATTERNS) |-> TYPE_PATTERNS[k].obs_type]
                       = TypeOrder
                /\ IF \A k \in 1..Len(sc) : sc[k] = 0
                      THEN e.observation_type = "note"
                      ELSE \E k \in 1..Len(sc) :
                              /\ e.observation_type = TypeOrder[k]
                              /\ \A j \in 1..Len(sc) : sc[j] <= sc[k]
                              /\ \A j \in 1..(k-1) : sc[j] < sc[k]
                /\ (/\ findall_count(<<TYPE_PATTERNS[1].patterns[1][1]>>,
                                     text_lower) = 1
                    /\ findall_count(<<TYPE_PATTERNS[1].patterns[1][3]>>,
                                     text_lower) = 1
                    /\ sc[1] = 2
                    /\ sc[7] = 1
                    /\ \A k \in 1..Len(sc) : k \notin {1, 7} => sc[k] = 0)
                      => e.observation_type = "technical_achievement"

\* C14 witness: 'research' and 'reference' tie for the highest count and the
\* text was classified research.
C14_Witness ==
    /\ Enrichments # {}
    /\ TypeScores[5] = TypeScores[8]
    /\ TypeScores[5] > 0
    /\ \A k \in 1..Len(TypeScores) : TypeScores[k] <= TypeScores[5]
    /\ \A e \in Enrichments : e.observation_type = "research"

\* the table positions of the tags whose pattern matches the text of cl_obs,
\* in declaration order
MatchingTagPositions ==
    SortSet({k \in 1..Len(TAG_PATTERNS) :
                re_search_words(TAG_PATTERNS[k].words,
                                lower(cl_obs.observation_text))})

C16_ImportanceWithinBounds ==
    /\ \A e \in Enrichments : e.importance \in 10..100
    /\ \A i \in 1..Len(cl_importance) : cl_importance[i] \in 0..1000

\* C16 witness: every signal matched, the raw score was over 1.0 and the
\* importance returned is 1.0.
C16_Witness ==
    /\ Enrichments # {}
    /\ importance_score(cl_obs.observation_text, cl_obs.entity_name,
                        cl_user_entities) > 1000
    /\ signals_found(LOW_IMPORTANCE_SIGNALS, lower(cl_obs.observation_text)) = 3
    /\ \A e \in Enrichments : e.importance = 100

----------------------------------------------------------------------------
(* Properties of the sequence index and of the entities, checked under       *)
(* SpecIngest (one writer at a time) and SpecRace (writers at the same time) *)

\* every observation row ever written, with its entity and its index
AssignedIndexes ==
    {[id |-> l.id, entity_id |-> l.entity_id,
      observation_index |-> l.observation_index] : l \in index_log}
      \cup {[id |-> q.chunk, entity_id |-> q.entity_id,
             observation_index |-> q.observation_index] : q \in chunked_from}

\* no two rows of observations of one entity hold the same index
IndexUniqueAmongActive ==
    \A a, b \in store.obs :
        a.entity_id = b.entity_id /\ a.observation_index = b.observation_index
            => a.id = b.id

\* C18: with one writer at a time, over the saves, the embedding passes and
\* the deletions, a saved observation receives its entity's maximum index + 1
\* and the chunks of an observation receive maximum + 1 .. maximum + N in part
\* order, no two observations of one entity hold the same index, and an index
\* once given to an observation of the entity is never given to another one
C18_IndexUniqueAndNeverReused ==
    /\ \A l \in index_log : l.observation_index = l.max_before + 1
    /\ \A q \in chunked_from : q.observation_index = q.max_before + q.part
    /\ IndexUniqueAmongActive
    /\ \A a, b \in AssignedIndexes :
          a.entity_id = b.entity_id /\ a.observation_index = b.observation_index
              => a.id = b.id

\* C18, the part that holds: the index read is the maximum + 1, chunks
\* continue after the maximum in part order, and the observations that are in
\* the table hold different indexes
C18_NextIndexIsMaxPlusOne ==
    /\ \A l \in index_log : l.observation_index = l.max_before + 1
    /\ \A q \in chunked_from : q.observation_index = q.max_before + q.part
    /\ IndexUniqueAmongActive

\* C18: an observation was deleted and a later save of its entity was given
\* the index of the deleted one
C18_ReusedAfterDelete ==
    /\ deletes > 0
    /\ Quiet
    /\ \E a, b \in AssignedIndexes :
          /\ a.entity_id = b.entity_id
          /\ a.observation_index = b.observation_index
          /\ a.id # b.id
          /\ ~Active(a.id)
          /\ Active(b.id)

\* the entity rows that the open transaction of host w inserts
PendingEntities(w) ==
    {saver[w].pend[k].row :
        k \in {j \in 1..Len(saver[w].pend) :
                  saver[w].pend[j].op = "insert_entity"}}

\* C19: the lookup-or-create of an entity is not protected against a double
\* insert: a save_observation call that looked the name up while no row of it
\* was committed inserts a row of its own, whatever the other host has
\* inserted and not committed, and every row inserted stays; so two calls
\* interleaved on one unseen domain leave two rows of one name.  While the
\* writers work one after the other, no two entity rows have the same name
C19_EntityCreationNotProtected ==
    /\ \A w \in Writers :
          saver[w].pc # "idle" /\ ~saver[w].existed
              => \E e \in PendingEntities(w) :
                    /\ e.id = saver[w].entity_id
                    /\ e.name = entity_domain(saver[w].data.url)
    /\ Cardinality(store.ent)
          + Cardinality(UNION {PendingEntities(w) : w \in Writers})
              = next_entity_id - 1
    /\ ~concurrent =>
          \A a, b \in store.ent : a.name = b.name => a.id = b.id

\* C19: two calls were interleaved on the same unseen domain, both have
\* committed and two entity rows hold that name
C19_Witness ==
    /\ concurrent
    /\ \A w \in Writers : saver[w].pc = "idle"
    /\ \E a, b \in store.ent : a.name = b.name /\ a.id # b.id

SavesOfOneEntityAreSerialized ==
    \A w, v \in Writers :
        w # v /\ saver[w].pc # "idle" /\ saver[v].pc # "idle"
            => saver[w].entity_id # saver[v].entity_id

\* so that no two saved observations of one entity hold the same index
SavedIndexesDiffer ==
    \A a, b \in index_log :
        a.entity_id = b.entity_id /\ a.observation_index = b.observation_index
            => a.id = b.id

\* C21: while no writer is at work, the observation_count of every entity is
\* the number of observations ever created for it, by save_observation or by
\* the chunker
C21_CountEqualsObservationsCreated ==
    Quiet =>
        \A e \in store.ent :
            e.observation_count =
                Cardinality({a \in AssignedIndexes : a.entity_id = e.id})

\* C21, the part that holds: the count is 1 at the creation of the entity and
\* one more for every observation that save_observation wrote for it
C21_CountEqualsObservationsSaved ==
    Quiet =>
        \A e \in store.ent :
            e.observation_count =
                Cardinality({l \in index_log : l.entity_id = e.id})

\* C21: the chunker has replaced an observation by its chunks and the count
\* of the entity is as before
C21_ChunksNotCounted ==
    /\ Quiet
    /\ \E e \in store.ent :
          /\ \E q \in chunked_from : q.entity_id = e.id /\ Active(q.chunk)
          /\ e.observation_count <
                 Cardinality({a \in AssignedIndexes : a.entity_id = e.id})

----------------------------------------------------------------------------
(* Further properties of the embedding pass, checked under Spec *)

\* the row is one that the chunker wrote
IsChunk(r) == \E q \in chunked_from : q.chunk = r.id

\* C22: between the passes, every row of observations that has an embedding
\* has a text of at most MAX_CHUNK_SIZE characters or is a chunk of a longer
\* original; an over-long observation that the chunker leaves in one piece is
\* not embedded as it stands
C22_EmbeddedTextsFitOrAreChunks ==
    pc = "idle" =>
        \A r \in store.obs :
            r.embedding # NoVec =>
                \/ PackedLen(r.observation_text) <= MAX_CHUNK_SIZE
                \/ IsChunk(r)

\* C22: a pass has ended and an observation over MAX_CHUNK_SIZE that
\* smart_chunk_text returns in one piece holds an embedding of its whole text
C22_OverlongEmbeddedWhole ==
    /\ pc = "idle"
    /\ \E r \in store.obs :
          /\ r.embedding # NoVec
          /\ PackedLen(r.observation_text) > MAX_CHUNK_SIZE
          /\ ~IsChunk(r)
          /\ Len(smart_chunk_text(Unpack(r.observation_text), MAX_CHUNK_SIZE)) = 1

----------------------------------------------------------------------------
(* Properties of the backfill pass, checked under SpecBackfill *)

\* the row of the table with this id has the values of the update
Applied(u) ==
    \E r \in bf_table :
        /\ r.id = u.id
        /\ r.tags = u.tags
        /\ r.observation_type = u.observation_type
        /\ r.importance = u.importance

\* C23: a failure on one record does not abort a pass: when a backfill pass
\* that applies its updates has ended, every observation it selected other
\* than the failing one has been updated and committed
C23_FailureDoesNotAbortPass ==
    bf_ended \in {"completed", "failed"} =>
        \A k \in 1..Len(bf_updates) :
            bf_updates[k].id # bf_failed => Applied(bf_updates[k])

\* C23: a pass has ended on a failing UPDATE and an observation it had
\* selected after the failing one is left without its update
C23_LaterObservationLost ==
    /\ bf_ended = "failed"
    /\ \E k \in 1..Len(bf_updates) :
          bf_updates[k].id > bf_failed /\ ~Applied(bf_updates[k])

\* C24: a backfill pass run right after a completed one selects none of the
\* observations the completed pass updated
C24_SecondBackfillSelectsNothingDone ==
    UpdatedIds(bf_updates) \cap bf_before = {}

\* C24: the pass after a completed one has selected an observation again whose
\* text matches no tag pattern
C24_UntaggedSelectedAgain ==
    \E k \in 1..Len(bf_updates) :
        /\ bf_updates[k].id \in bf_before
        /\ bf_updates[k].tags = <<>>

----------------------------------------------------------------------------
(* Properties of the two enrichment passes, checked under SpecEnrich *)

\* C25: enrichment never overwrites: no step of the backfill changes the
\* type, importance or tags of an observation that has tags, and no step of
\* the embedding pass changes an observation that has an embedding (the
\* chunker may remove the row, it never rewrites it)
C25_EnrichmentNeverOverwrites ==
    [][/\ \A r \in bf_table : Len(r.tags) > 0 => r \in bf_table'
       /\ \A r \in store.obs :
              r.embedding # NoVec =>
                  \/ r \in store'.obs
                  \/ \A q \in store'.obs : q.id # r.id]_vars

\* C25: both passes have written: a tagged observation stands next to one the
\* backfill has just tagged, and an embedded observation next to one the
\* embedding pass has just embedded with the other provider
C25_Witness ==
    /\ bf_ended = "completed"
    /\ \E r \in bf_table : r.tags = <<"legacy">>
    /\ \E r \in bf_table : Applied(bf_updates[1])
    /\ passes > 0 /\ pc = "idle"
    /\ \E r, q \in store.obs :
          /\ r.embedding = Vec("ollama")
          /\ q.embedding = Vec("lmstudio")

----------------------------------------------------------------------------
(* Properties of the tags of save_observation, checked under SpecTags *)

\* no tag stands twice in the list
DuplicateFree(tags) ==
    \A i, j \in 1..Len(tags) : tags[i] = tags[j] => i = j

\* C27: for every input, tags as a list or as one text with commas, with or
\* without a category, the persisted tags are duplicate-free, contain
\* 'browser', and contain the category when one is given and it is not 'auto'
C27_PersistedTagsDuplicateFree ==
    tg_pc = "done" =>
        /\ DuplicateFree(tg_persisted)
        /\ InList(BrowserTag, tg_persisted)
        /\ tg_category \notin {<<>>, AutoCategory} =>
               InList(tg_category, tg_persisted)

\* C27: the persisted tags hold a tag twice
C27_DuplicatePersisted == tg_pc = "done" /\ ~DuplicateFree(tg_persisted)

\* C27: 'browser' and the category are always among the persisted tags
C27_BrowserAndCategoryPersisted ==
    tg_pc = "done" =>
        /\ InList(BrowserTag, tg_persisted)
        /\ tg_category \notin {<<>>, AutoCategory} =>
               InList(tg_category, tg_persisted)

----------------------------------------------------------------------------
(* Properties of the host's main loop, checked under SpecHost *)

\* the last element of a non-empty sequence
Last(q) == q[Len(q)]

\* this step rejects a message whose declared length is over the limit
RejectsOversize == h_log' # h_log /\ Last(h_log').kind = "oversize"

\* this step sends the failure that save_observation returned
AnswersFailedSave == h_stdout' # h_stdout /\ Last(h_stdout') = SaveFailed

Answers(kind, response) ==
    CASE kind = "ping" -> response = Pong
      [] kind = "save" -> response \in {Saved, SaveFailed}
      [] kind \in {"other", "oversize"} -> response = UnknownAction
      [] OTHER -> response = ExceptionResponse

\* C28: the host answers every received message with exactly one response
\* before it reads the next one (pong for a ping, the result of
\* save_observation for a save, a failure for anything else and for an
\* exception), and the loop ends only at the end of stdin
C28_OneResponsePerMessage ==
    /\ h_pc = "read" => Len(h_stdout) = Len(h_log)
    /\ h_pc = "save" => Len(h_stdout) = Len(h_log) - 1
    /\ h_pc = "ended" => h_eof /\ Len(h_stdout) = Len(h_log)
    /\ \A i \in 1..Len(h_stdout) :
           i <= Len(h_log) /\ Answers(h_log[i].kind, h_stdout[i])

\* C28: the loop has ended on a message, which got no response, while stdin
\* still holds a message
C28_EndedOnNullMessage ==
    /\ h_pc = "ended"
    /\ ~h_eof
    /\ Last(h_log).kind = "null"
    /\ Len(h_stdout) < Len(h_log)
    /\ h_stdin # <<>>

\* C29: after the rejection of a message over the limit the stream is
\* frame-aligned: the next read_message starts at the length header of the
\* next message (or at the end of stdin)
C29_AlignedAfterRejection ==
    (h_pc = "read" /\ h_log # <<>> /\ Last(h_log).kind = "oversize") =>
        h_offset \in h_starts

\* C29: the rejected payload has been read as length headers: two rejections
\* for one message over the limit
C29_PayloadReadAsHeader ==
    /\ Cardinality({i \in 1..Len(h_log) : h_log[i].kind = "oversize"}) >= 2
    /\ Cardinality(h_starts) = 2
    /\ h_offset \notin h_starts

----------------------------------------------------------------------------
(* Properties of the embedding passes, checked under SpecRechunk *)

\* C30: a chunk is never chunked again, over any sequence of passes, also
\* when every provider fails or the process is stopped after the chunks were
\* committed and before their embeddings: no chunk row was cut from a chunk
C30_ChunkNeverChunkedAgain ==
    \A q \in chunked_from : ~\E c \in chunked_from : c.chunk = q.of

\* C30: a chunk that was left without an embedding has been cut into chunks
\* by a later pass
C30_ChunkOfChunk ==
    /\ passes = 2
    /\ \E q, c \in chunked_from : c.chunk = q.of /\ c.part = 1

====
